---- MODULE Spec2Model ----
(***************************************************************************)
(* A model of the sendme transfer engine:                                  *)
(*   - the receive pipeline (lib/src/receive.rs, lib/src/export.rs),       *)
(*   - the import half of the send pipeline (lib/src/import.rs, send.rs),  *)
(*   - the transfer registry of the app (app/src-tauri/src/lib.rs).        *)
(* Each part has its own variables and its own specification; the         *)
(* variables of the other parts stay at their initial value.              *)
(***************************************************************************)
EXTENDS Integers, Sequences, FiniteSets, TLC

(***************************************************************************)
(* Bounds of the model.                                                    *)
(***************************************************************************)
\* number of entries of the largest collection a ticket names
MaxFiles == 3
\* size of the content a ticket names, in verified units
MaxBytes == 2
\* longest download stream (number of Progress items before Done)
MaxProgress == 11
\* longest download stream explored with every collection and every set
\* of pre-existing targets
ShortStream == 2
\* longest download stream when two receives run concurrently
MaxProgressConc == 1
\* CopyProgress items the store yields per exported file
MaxCopyItems == 1
\* number of files the sent tree holds
MaxImportFiles == 2
\* progress items of one file import before its Done or Error
MaxImportItems == 1
\* largest num_cpus::get()
MaxCpus == 2
\* events one pipeline puts on its progress channel
MaxEvents == 2
\* events of the import whose progress channel is followed until it is full
MaxChanEvents == 34
\* longest text and longest query given to fuzzy_score
MaxText == 3
MaxQuery == 2
\* longest entry name given to get_export_path, in characters
MaxName == 4
\* RequestUpdate::Progress messages of one request
MaxUpdates == 1
\* entries of the collection whose sizes are summed, and largest file
MaxEntries == 2
MaxFileSize == 2
\* the clock of the nearby service advances MaxTicks times by TickMs
MaxTicks == 2
TickMs == 25000
\* datagrams received by the multicast listener, tickets posted to the HTTP
\* server, events taken by the client
MaxDatagrams == 2
MaxTickets == 2
MaxTaken == 1
\* the longest interval between two sweeps that is considered
MaxSweepInterval == 10000

(***************************************************************************)
(* Program constants.                                                      *)
(***************************************************************************)
\* receive.rs:157, the collection load is attempted on items 1, 11, 21, ...
PollEvery == 10
\* app lib.rs:416 and lib.rs:642, tokio::sync::mpsc::channel(32)
ChannelCap == 32

Recvs == {1, 2}
Bases == {"base1", "base2"}
ExportDirs == {"out1", "out2"}
Names == 1..(MaxFiles + 1)

(***************************************************************************)
(* State of the receive pipeline.                                          *)
(***************************************************************************)
VARIABLES
    calls,               \* the receive calls the client issues
    base_dir,            \* r -> args.common.temp_dir (or cwd)
    export_dir,          \* r -> args.export_dir
    collection,          \* number of entries of the ticket's collection
    streamLen,           \* r -> Progress items the peer's stream carries
    iroh_data_dir,       \* base -> the store at <base>/.sendme-recv-<hash>
    targets,             \* export dir -> name -> state of export_dir.join(name)
    pc,                  \* r -> position of receive_internal
    sent,                \* r -> events put on progress_tx, in order
    local_size,          \* r -> local.local_bytes() on entry
    metadata_sent,       \* r -> receive.rs:146
    metadata_collection, \* r -> receive.rs:147, TRUE when Some
    progress_count,      \* r -> receive.rs:148
    items,               \* r -> Progress items taken from the stream
    stream_offset,       \* r -> offset of the last Progress item
    stats,               \* r -> "zero" (Stats::default()) or "read"
    idx,                 \* r -> index of the entry export is at
    copied,              \* r -> items of the export stream of the current file
    error                \* r -> the step whose failure ended the receive

recvVars == <<calls, base_dir, export_dir, collection, streamLen,
              iroh_data_dir, targets, pc, sent, local_size, metadata_sent,
              metadata_collection, progress_count, items, stream_offset,
              stats, idx, copied, error>>

(***************************************************************************)
(* State of a send: setup and parallel import.                             *)
(***************************************************************************)
VARIABLES
    data_sources,        \* import.rs:41, the names in the order of the walk
    parallelism,         \* import.rs:31, num_cpus::get()
    send_pc,             \* position of send_internal / import_internal
    file_pc,             \* i -> position of the import future of entry i
    file_items,          \* i -> progress items taken from its stream
    names_and_tags,      \* import.rs:68, results in order of completion
    import_sent,         \* events put on progress_tx, in order
    collection_blob,     \* the Collection stored in the sender's store
    blobs_data_dir,      \* send.rs:82, TRUE when the directory exists
    ticket,              \* TRUE when send has returned a ticket
    active_sessions      \* suffixes of the .sendme-send-* directories that
                         \* the active send sessions have in base_dir

impVars == <<data_sources, parallelism, send_pc, file_pc, file_items,
             names_and_tags, import_sent, collection_blob, blobs_data_dir,
             ticket, active_sessions>>

(***************************************************************************)
(* State of the app's transfer registry and of the tasks around it.        *)
(***************************************************************************)
VARIABLES
    transfers,           \* id -> TransferState, or NoRecord
    kind,                \* id -> "send" or "receive"
    call,                \* id -> position of the send_file/receive_file command
    rx,                  \* id -> events queued in the progress channel
    tx_open,             \* id -> TRUE while a sender of the channel is alive
    listener,            \* id -> position of the progress listener task
    emitted,             \* id -> events the pipeline has produced
    abort_fired,         \* id -> TRUE once abort_tx.send(()) was called
    after_abort,         \* id -> events produced after the abort, up to 2
    cwd                  \* the current working directory of the app's process

regVars == <<transfers, kind, call, rx, tx_open, listener, emitted,
             abort_fired, after_abort, cwd>>

(***************************************************************************)
(* State of one progress channel: its producer, a pipeline of the library, *)
(* and its consumer, the progress listener.                                *)
(***************************************************************************)
VARIABLES
    chan,                \* the events queued in the channel, oldest first
    produced,            \* events whose tx.send(..).await has returned
    waiting,             \* TRUE while the producer is parked in tx.send(..).await
    awaited,             \* the events whose send had to wait for capacity
    received             \* the events rx.recv() has returned, in order

chanVars == <<chan, produced, waiting, awaited, received>>

(***************************************************************************)
(* One call of a function of the library or of the CLI.                    *)
(***************************************************************************)
VARIABLES
    called,              \* the function called
    arg,                 \* its arguments
    ret,                 \* what it has returned
    returned             \* the number of steps of the call that are done

callVars == <<called, arg, ret, returned>>

(***************************************************************************)
(* State of the nearby discovery service (nearby.rs): the NearbyState      *)
(* behind its RwLock, the event channel, and the tasks that use them.      *)
(***************************************************************************)
VARIABLES
    devices,             \* NearbyState.devices: fingerprint -> device
    auto_accept,         \* NearbyState.auto_accept
    now,                 \* the clock, in milliseconds
    backlog,             \* events queued in the event channel at the start
    nearby_events,       \* the events sent into the channel since, in order
    taken,               \* the number of events the client has received
    readers,             \* the tasks that hold the read lock of the state
    listener_task,       \* the multicast listener: position and locals
    http_task,           \* the ticket handler of the HTTP server
    responses,           \* the responses given to POST /api/sendme/v1/ticket
    client,              \* the client's call of refresh
    heard,               \* the number of datagrams the listener has received
    server_running,      \* NearbyState.server_running
    shutdown,            \* a message is queued in the shutdown channel
    replies              \* the unicast responses the listener has sent

nearVars == <<devices, auto_accept, now, backlog, nearby_events, taken,
              readers, listener_task, http_task, responses, client, heard,
              server_running, shutdown, replies>>

(***************************************************************************)
(* State of handle_provider_progress (send.rs): the events of the blobs    *)
(* provider and the tasks that forward them to the progress channel.       *)
(***************************************************************************)
VARIABLES
    provider,            \* connection -> how far the provider has got with it
    recv_queue,          \* the ProviderMessages not yet taken by the loop
    request_rx,          \* connection -> the updates of its request not yet taken
    request_task,        \* connection -> position of the forwarding task
    connections,         \* the map of the connections, as the set of its keys
    forwarded,           \* the Connection events sent to the progress channel
    updates              \* connection -> number of RequestUpdate::Progress made

provVars == <<provider, recv_queue, request_rx, request_task, connections,
              forwarded, updates>>

vars == <<recvVars, impVars, regVars, chanVars, callVars, nearVars, provVars>>

NotRecv == <<impVars, regVars, chanVars, callVars, nearVars, provVars>>
NotImp == <<recvVars, regVars, chanVars, callVars, nearVars, provVars>>
NotReg == <<recvVars, impVars, chanVars, callVars, nearVars, provVars>>
NotChan == <<recvVars, impVars, regVars, callVars, nearVars, provVars>>
NotCall == <<recvVars, impVars, regVars, chanVars, nearVars, provVars>>
NotNear == <<recvVars, impVars, regVars, chanVars, callVars, provVars>>
NotProv == <<recvVars, impVars, regVars, chanVars, callVars, nearVars>>

Ev(t, a) == [t |-> t, a |-> a]

EmptyStore == [exists |-> FALSE, bytes |-> 0, root |-> FALSE]

\* a wrong receive.rs:109: the local content is never taken as complete
is_complete_never(b) == FALSE

\* local.is_complete(): every blob of the hash sequence is present
is_complete(b) == iroh_data_dir[b].bytes = MaxBytes

\* the outcomes of Collection::load on the store of base b.  When the
\* directory was removed under the open store, the read goes through
\* handles the store still holds and may succeed or fail.
LoadOutcomes(b) ==
    IF iroh_data_dir[b].exists THEN {iroh_data_dir[b].root} ELSE BOOLEAN

Emit(r, e) == sent' = [sent EXCEPT ![r] = Append(@, e)]

Goto(r, l) == pc' = [pc EXCEPT ![r] = l] /\ UNCHANGED error

\* the receive returns Err; cause names the failing step
Fail(r, cause) ==
    /\ pc' = [pc EXCEPT ![r] = "err"]
    /\ error' = [error EXCEPT ![r] = cause]

RecvInputs == <<calls, base_dir, export_dir, collection, streamLen>>

(***************************************************************************)
(* receive_internal, lines 39-95: bind the endpoint, pick the working      *)
(* directory and create it.                                                *)
(***************************************************************************)
RecvStart(r) ==
    /\ r \in calls
    /\ pc[r] = "idle"
    /\ \E bound \in BOOLEAN :
         IF bound
         THEN /\ iroh_data_dir' =
                   [iroh_data_dir EXCEPT ![base_dir[r]].exists = TRUE]
              /\ Goto(r, "open")
         ELSE /\ Fail(r, "bind")
              /\ UNCHANGED iroh_data_dir
    /\ UNCHANGED <<NotRecv, RecvInputs, targets, sent, local_size, metadata_sent,
                   metadata_collection, progress_count, items,
                   stream_offset, stats, idx, copied>>

(***************************************************************************)
(* lines 99-109: FsStore::load (which creates a missing directory) and     *)
(* the query of the local state.                                           *)
(***************************************************************************)
RecvOpenStore(r) ==
    /\ pc[r] = "open"
    /\ \E ok \in BOOLEAN :
         IF ok
         THEN /\ iroh_data_dir' =
                    [iroh_data_dir EXCEPT ![base_dir[r]].exists = TRUE]
              /\ local_size' =
                    [local_size EXCEPT ![r] = iroh_data_dir[base_dir[r]].bytes]
              /\ Goto(r, IF is_complete(base_dir[r]) THEN "cached"
                                                     ELSE "connecting")
         ELSE /\ Fail(r, "open")
              /\ UNCHANGED <<iroh_data_dir, local_size>>
    /\ UNCHANGED <<NotRecv, RecvInputs, targets, sent, metadata_sent,
                   metadata_collection, progress_count, items,
                   stream_offset, stats, idx, copied>>

\* lines 110-114
RecvConnecting(r) ==
    /\ pc[r] = "connecting"
    /\ Emit(r, Ev("Connecting", 0))
    /\ Goto(r, "connect")
    /\ UNCHANGED <<NotRecv, RecvInputs, iroh_data_dir, targets, local_size,
                   metadata_sent, metadata_collection, progress_count, items,
                   stream_offset, stats, idx, copied>>

\* a wrong receive.rs:118-122: Download(GettingSizes) is not emitted
RecvConnect_without_event(r) ==
    /\ pc[r] = "connect"
    /\ \E ok \in BOOLEAN :
         IF ok THEN Goto(r, "sizes") ELSE Fail(r, "connect")
    /\ UNCHANGED <<NotRecv, RecvInputs, iroh_data_dir, targets, sent, local_size,
                   metadata_sent, metadata_collection, progress_count, items,
                   stream_offset, stats, idx, copied>>

\* lines 116-122: endpoint.connect()? and Download(GettingSizes)
RecvConnect(r) ==
    /\ pc[r] = "connect"
    /\ \E ok \in BOOLEAN :
         IF ok
         THEN Emit(r, Ev("GettingSizes", 0)) /\ Goto(r, "sizes")
         ELSE UNCHANGED sent /\ Fail(r, "connect")
    /\ UNCHANGED <<NotRecv, RecvInputs, iroh_data_dir, targets, local_size,
                   metadata_sent, metadata_collection, progress_count, items,
                   stream_offset, stats, idx, copied>>

\* a wrong receive.rs:133-140: the first Downloading event carries the
\* total size as its offset
RecvGetSizes_offset_total(r) ==
    /\ pc[r] = "sizes"
    /\ \E ok \in BOOLEAN :
         IF ok
         THEN Emit(r, Ev("Downloading", MaxBytes + 1)) /\ Goto(r, "stream")
         ELSE UNCHANGED sent /\ Fail(r, "sizes")
    /\ metadata_sent' = [metadata_sent EXCEPT ![r] = FALSE]
    /\ metadata_collection' = [metadata_collection EXCEPT ![r] = FALSE]
    /\ progress_count' = [progress_count EXCEPT ![r] = 0]
    /\ UNCHANGED <<NotRecv, RecvInputs, iroh_data_dir, targets, local_size, items,
                   stream_offset, stats, idx, copied>>

\* lines 124-148: get_hash_seq_and_sizes()?, the first Downloading event
\* with offset 0, and the start of the stream
RecvGetSizes(r) ==
    /\ pc[r] = "sizes"
    /\ \E ok \in BOOLEAN :
         IF ok
         THEN Emit(r, Ev("Downloading", 0)) /\ Goto(r, "stream")
         ELSE UNCHANGED sent /\ Fail(r, "sizes")
    /\ metadata_sent' = [metadata_sent EXCEPT ![r] = FALSE]
    /\ metadata_collection' = [metadata_collection EXCEPT ![r] = FALSE]
    /\ progress_count' = [progress_count EXCEPT ![r] = 0]
    /\ UNCHANGED <<NotRecv, RecvInputs, iroh_data_dir, targets, local_size, items,
                   stream_offset, stats, idx, copied>>

\* the store after the stream has delivered offset o: the verified bytes
\* grow, and the root blob is complete from some item on
StoreAfter(b, bytes, root) ==
    IF iroh_data_dir[b].exists
    THEN [iroh_data_dir EXCEPT
            ![b].bytes = IF bytes > @ THEN bytes ELSE @,
            ![b].root = @ \/ root \/ bytes = MaxBytes]
    ELSE iroh_data_dir

\* receive.rs:157
PollNow(count) == (count - 1) % PollEvery = 0

(***************************************************************************)
(* lines 150-215: one Progress(offset) item of the download stream.        *)
(***************************************************************************)
RecvProgress(r) ==
    /\ pc[r] = "stream"
    /\ items[r] < streamLen[r]
    /\ \E offset \in stream_offset[r]..(MaxBytes - local_size[r]),
          root \in BOOLEAN :
         LET b == base_dir[r]
             store == StoreAfter(b, local_size[r] + offset, root)
             count == progress_count[r] + 1
             loaded == IF store[b].exists THEN {store[b].root} ELSE BOOLEAN
         IN  /\ iroh_data_dir' = store
             /\ items' = [items EXCEPT ![r] = @ + 1]
             /\ stream_offset' = [stream_offset EXCEPT ![r] = offset]
             /\ \E ok \in loaded :
                  IF ~metadata_sent[r]
                  THEN /\ progress_count' = [progress_count EXCEPT ![r] = count]
                       /\ IF PollNow(count) /\ ok
                          THEN /\ sent' = [sent EXCEPT ![r] =
                                     @ \o <<Ev("Metadata", collection),
                                            Ev("Downloading", local_size[r] + offset)>>]
                               /\ metadata_sent' = [metadata_sent EXCEPT ![r] = TRUE]
                               /\ metadata_collection' =
                                     [metadata_collection EXCEPT ![r] = TRUE]
                          ELSE /\ Emit(r, Ev("Downloading", local_size[r] + offset))
                               /\ UNCHANGED <<metadata_sent, metadata_collection>>
                  ELSE /\ Emit(r, Ev("Downloading", local_size[r] + offset))
                       /\ UNCHANGED <<progress_count, metadata_sent,
                                      metadata_collection>>
    /\ UNCHANGED <<NotRecv, RecvInputs, targets, pc, error, local_size, stats, idx,
                   copied>>

\* lines 216-219: Done(stats) ends the stream; the content is complete
RecvDone(r) ==
    /\ pc[r] = "stream"
    /\ items[r] = streamLen[r]
    /\ iroh_data_dir' = StoreAfter(base_dir[r], MaxBytes, TRUE)
    /\ stats' = [stats EXCEPT ![r] = "read"]
    /\ Goto(r, "loadcol")
    /\ UNCHANGED <<NotRecv, RecvInputs, targets, sent, local_size, metadata_sent,
                   metadata_collection, progress_count, items,
                   stream_offset, idx, copied>>

\* lines 220-222: Error(cause) ends the receive
RecvStreamError(r) ==
    /\ pc[r] = "stream"
    /\ Fail(r, "stream")
    /\ UNCHANGED <<NotRecv, RecvInputs, iroh_data_dir, targets, sent, local_size,
                   metadata_sent, metadata_collection, progress_count, items,
                   stream_offset, stats, idx, copied>>

\* lines 227-256: the content is already in the store
RecvCached(r) ==
    /\ pc[r] = "cached"
    /\ \E ok \in LoadOutcomes(base_dir[r]) :
         IF ok
         THEN /\ Emit(r, Ev("Metadata", collection))
              /\ metadata_collection' = [metadata_collection EXCEPT ![r] = TRUE]
              /\ Goto(r, "loadcol")
         ELSE /\ Fail(r, "load")
              /\ UNCHANGED <<sent, metadata_collection>>
    /\ UNCHANGED <<NotRecv, RecvInputs, iroh_data_dir, targets, local_size,
                   metadata_sent, progress_count, items, stream_offset,
                   stats, idx, copied>>

\* lines 258-262: use the collection held, or load it
RecvLoadCollection(r) ==
    /\ pc[r] = "loadcol"
    /\ \E ok \in (IF metadata_collection[r] THEN {TRUE}
                  ELSE LoadOutcomes(base_dir[r])) :
         IF ok THEN Goto(r, "export") ELSE Fail(r, "load")
    /\ UNCHANGED <<NotRecv, RecvInputs, iroh_data_dir, targets, sent, local_size,
                   metadata_sent, metadata_collection, progress_count, items,
                   stream_offset, stats, idx, copied>>

(***************************************************************************)
(* export, export.rs:20-51: the write test and Export(Started).            *)
(***************************************************************************)
ExportBegin(r) ==
    /\ pc[r] = "export"
    /\ Emit(r, Ev("ExportStarted", collection))
    /\ idx' = [idx EXCEPT ![r] = 1]
    /\ Goto(r, "exp_next")
    /\ UNCHANGED <<NotRecv, RecvInputs, iroh_data_dir, targets, local_size,
                   metadata_sent, metadata_collection, progress_count, items,
                   stream_offset, stats, copied>>

\* export.rs:53-81: the check of one target, made when its turn comes
ExportFileStart(r) ==
    /\ pc[r] = "exp_next"
    /\ idx[r] <= collection
    /\ IF targets[export_dir[r]][idx[r]] # "none"
       THEN Fail(r, "exists") /\ UNCHANGED sent
       ELSE Emit(r, Ev("ExportFileStarted", idx[r])) /\ Goto(r, "exp_file")
    /\ copied' = [copied EXCEPT ![r] = 0]
    /\ UNCHANGED <<NotRecv, RecvInputs, iroh_data_dir, targets, local_size,
                   metadata_sent, metadata_collection, progress_count, items,
                   stream_offset, stats, idx>>

\* export.rs:85-111: Size and CopyProgress items; the store writes the
\* target while it copies
ExportFileProgress(r) ==
    /\ pc[r] = "exp_file"
    /\ copied[r] <= MaxCopyItems
    /\ copied' = [copied EXCEPT ![r] = @ + 1]
    /\ targets' = [targets EXCEPT ![export_dir[r]][idx[r]] = "partial"]
    /\ Emit(r, Ev("ExportFileProgress", idx[r]))
    /\ UNCHANGED <<NotRecv, RecvInputs, iroh_data_dir, pc, error, local_size,
                   metadata_sent, metadata_collection, progress_count, items,
                   stream_offset, stats, idx>>

\* export.rs:112-123: Done, the target holds the blob
ExportFileDone(r) ==
    /\ pc[r] = "exp_file"
    /\ copied[r] >= 1
    /\ targets' = [targets EXCEPT ![export_dir[r]][idx[r]] = "blob"]
    /\ Emit(r, Ev("ExportFileCompleted", idx[r]))
    /\ idx' = [idx EXCEPT ![r] = @ + 1]
    /\ Goto(r, "exp_next")
    /\ UNCHANGED <<NotRecv, RecvInputs, iroh_data_dir, local_size, metadata_sent,
                   metadata_collection, progress_count, items, stream_offset,
                   stats, copied>>

\* export.rs:124-126: Error(cause), the store could not read the blob or
\* write the target
ExportFileError(r) ==
    /\ pc[r] = "exp_file"
    /\ Fail(r, "export")
    /\ UNCHANGED <<NotRecv, RecvInputs, iroh_data_dir, targets, sent, local_size,
                   metadata_sent, metadata_collection, progress_count, items,
                   stream_offset, stats, idx, copied>>

\* export.rs:131-140: Export(Completed), export returns Ok
ExportEnd(r) ==
    /\ pc[r] = "exp_next"
    /\ idx[r] > collection
    /\ Emit(r, Ev("ExportCompleted", 0))
    /\ Goto(r, "exported")
    /\ UNCHANGED <<NotRecv, RecvInputs, iroh_data_dir, targets, local_size,
                   metadata_sent, metadata_collection, progress_count, items,
                   stream_offset, stats, idx, copied>>

\* receive.rs:275-279: Download(Completed)
RecvCompleted(r) ==
    /\ pc[r] = "exported"
    /\ Emit(r, Ev("Completed", 0))
    /\ Goto(r, "cleanup")
    /\ UNCHANGED <<NotRecv, RecvInputs, iroh_data_dir, targets, local_size,
                   metadata_sent, metadata_collection, progress_count, items,
                   stream_offset, stats, idx, copied>>

\* a wrong receive.rs:281-289: the working directory is left in place
RecvCleanup_keeps_dir(r) ==
    /\ pc[r] = "cleanup"
    /\ Goto(r, "ok")
    /\ UNCHANGED <<NotRecv, RecvInputs, iroh_data_dir, targets, sent, local_size,
                   metadata_sent, metadata_collection, progress_count, items,
                   stream_offset, stats, idx, copied>>

\* receive.rs:281-289: remove_dir_all(iroh_data_dir)? fails when the
\* directory is not there, otherwise the receive returns Ok
RecvCleanup(r) ==
    /\ pc[r] = "cleanup"
    /\ IF iroh_data_dir[base_dir[r]].exists
       THEN /\ iroh_data_dir' = [iroh_data_dir EXCEPT ![base_dir[r]] = EmptyStore]
            /\ Goto(r, "ok")
       ELSE /\ Fail(r, "cleanup")
            /\ UNCHANGED iroh_data_dir
    /\ UNCHANGED <<NotRecv, RecvInputs, targets, sent, local_size, metadata_sent,
                   metadata_collection, progress_count, items, stream_offset,
                   stats, idx, copied>>

RecvStep(r) ==
    \/ RecvStart(r)
    \/ RecvOpenStore(r)
    \/ RecvConnecting(r)
    \/ RecvConnect(r)
    \/ RecvGetSizes(r)
    \/ RecvProgress(r)
    \/ RecvDone(r)
    \/ RecvStreamError(r)
    \/ RecvCached(r)
    \/ RecvLoadCollection(r)
    \/ ExportBegin(r)
    \/ ExportFileStart(r)
    \/ ExportFileProgress(r)
    \/ ExportFileDone(r)
    \/ ExportFileError(r)
    \/ ExportEnd(r)
    \/ RecvCompleted(r)
    \/ RecvCleanup(r)

NextRecv == \E r \in Recvs : RecvStep(r)

\* what does not depend on the inputs of a receive
InitRecvState ==
    /\ pc = [r \in Recvs |-> "idle"]
    /\ sent = [r \in Recvs |-> <<>>]
    /\ local_size = [r \in Recvs |-> 0]
    /\ metadata_sent = [r \in Recvs |-> FALSE]
    /\ metadata_collection = [r \in Recvs |-> FALSE]
    /\ progress_count = [r \in Recvs |-> 0]
    /\ items = [r \in Recvs |-> 0]
    /\ stream_offset = [r \in Recvs |-> 0]
    /\ stats = [r \in Recvs |-> "zero"]
    /\ idx = [r \in Recvs |-> 0]
    /\ copied = [r \in Recvs |-> 0]
    /\ error = [r \in Recvs |-> "none"]

\* a store as an earlier, aborted or completed, download left it
StoreWith(bytes) ==
    [exists |-> TRUE, bytes |-> bytes, root |-> bytes > 0]

NoTargets == [n \in Names |-> "none"]

(***************************************************************************)
(* One receive call.  The working directory is new, or holds what an       *)
(* earlier receive of the same ticket left; some of the export targets     *)
(* may exist.  The streams longer than ShortStream are explored with a     *)
(* collection of at most one entry and an empty export directory.          *)
(***************************************************************************)
InitRecv ==
    /\ calls = {1}
    /\ base_dir = [r \in Recvs |-> "base1"]
    /\ export_dir = [r \in Recvs |-> "out1"]
    /\ collection \in 0..MaxFiles
    /\ streamLen \in [Recvs -> 0..MaxProgress]
    /\ streamLen[2] = 0
    /\ \E left \in 0..MaxBytes :
         iroh_data_dir = [b \in Bases |->
            IF b = "base1" /\ left > 0 THEN StoreWith(left) ELSE EmptyStore]
    /\ \E present \in SUBSET (1..collection) :
         /\ targets = [d \in ExportDirs |->
               IF d = "out1"
               THEN [n \in Names |-> IF n \in present THEN "other" ELSE "none"]
               ELSE NoTargets]
         /\ \/ streamLen[1] <= ShortStream
            \/ collection <= 1 /\ present = {}
    /\ InitRecvState

\* no receive is called
RecvIdle ==
    /\ calls = {}
    /\ base_dir = [r \in Recvs |-> "base1"]
    /\ export_dir = [r \in Recvs |-> "out1"]
    /\ collection = 0
    /\ streamLen = [r \in Recvs |-> 0]
    /\ iroh_data_dir = [b \in Bases |-> EmptyStore]
    /\ targets = [d \in ExportDirs |-> NoTargets]
    /\ InitRecvState

(***************************************************************************)
(* Two receive calls of the same ticket at the same time, with the same    *)
(* or with distinct base and export directories.                           *)
(***************************************************************************)
InitConc ==
    /\ calls = Recvs
    /\ base_dir \in [Recvs -> Bases]
    /\ base_dir[1] = "base1"
    /\ export_dir \in [Recvs -> ExportDirs]
    /\ export_dir[1] = "out1"
    /\ collection \in 0..1
    /\ streamLen \in [Recvs -> 0..MaxProgressConc]
    /\ iroh_data_dir = [b \in Bases |-> EmptyStore]
    /\ targets = [d \in ExportDirs |-> NoTargets]
    /\ InitRecvState

(***************************************************************************)
(* The send pipeline up to the ticket: send_internal and import_internal.  *)
(***************************************************************************)
Files == 1..Len(data_sources)

ImpEmit(e) == import_sent' = Append(import_sent, e)

Suffixes == {1, 2}

\* a suffix no directory in base_dir carries
FreshSuffix == CHOOSE x \in Suffixes : x \notin active_sessions

\* send.rs:46-105: the checks made before the setup future runs.  The
\* suffix is drawn at random (send.rs:66) and send refuses when a directory
\* with this very suffix exists (send.rs:82-92); the suffixes no directory
\* carries behave alike and are represented by one.
SendStart ==
    /\ send_pc = "idle"
    /\ \E suffix \in active_sessions \cup {FreshSuffix} :
         send_pc' = IF suffix \in active_sessions THEN "err" ELSE "setup"
    /\ UNCHANGED <<NotImp, active_sessions, data_sources, parallelism, file_pc, file_items,
                   names_and_tags, import_sent, collection_blob,
                   blobs_data_dir, ticket>>

\* send.rs:107-133: create the working directory, bind, load the store
SendSetup ==
    /\ send_pc = "setup"
    /\ blobs_data_dir' = TRUE
    /\ \E ok \in BOOLEAN : send_pc' = IF ok THEN "import" ELSE "err"
    /\ UNCHANGED <<NotImp, active_sessions, data_sources, parallelism, file_pc, file_items,
                   names_and_tags, import_sent, collection_blob, ticket>>

\* import.rs:31-65: walk the tree and emit Import(Started)
ImportBegin ==
    /\ send_pc = "import"
    /\ ImpEmit(Ev("ImportStarted", Len(data_sources)))
    /\ send_pc' = "importing"
    /\ UNCHANGED <<NotImp, active_sessions, data_sources, parallelism, file_pc, file_items,
                   names_and_tags, collection_blob, blobs_data_dir, ticket>>

Running == {i \in Files : file_pc[i] = "running"}

\* import.rs:68-83 and 172: buffered_unordered takes the futures in the
\* order of data_sources and keeps at most `parallelism` of them running
ImportFileStart(i) ==
    /\ send_pc = "importing"
    /\ file_pc[i] = "queued"
    /\ \A j \in Files : j < i => file_pc[j] # "queued"
    /\ Cardinality(Running) < parallelism
    /\ ImpEmit(Ev("FileStarted", data_sources[i]))
    /\ file_pc' = [file_pc EXCEPT ![i] = "running"]
    /\ UNCHANGED <<NotImp, active_sessions, data_sources, parallelism, send_pc, file_items,
                   names_and_tags, collection_blob, blobs_data_dir, ticket>>

\* import.rs:98-150: Size, CopyProgress, CopyDone, OutboardProgress
ImportFileProgress(i) ==
    /\ send_pc = "importing"
    /\ file_pc[i] = "running"
    /\ file_items[i] < MaxImportItems
    /\ file_items' = [file_items EXCEPT ![i] = @ + 1]
    /\ ImpEmit(Ev("FileProgress", data_sources[i]))
    /\ UNCHANGED <<NotImp, active_sessions, data_sources, parallelism, send_pc, file_pc,
                   names_and_tags, collection_blob, blobs_data_dir, ticket>>

\* import.rs:154-169: Done(tag), the future yields Ok((name, tag, size))
ImportFileDone(i) ==
    /\ send_pc = "importing"
    /\ file_pc[i] = "running"
    /\ ImpEmit(Ev("FileCompleted", data_sources[i]))
    /\ file_pc' = [file_pc EXCEPT ![i] = "done"]
    /\ names_and_tags' =
          Append(names_and_tags, [name |-> data_sources[i], ok |-> TRUE])
    /\ UNCHANGED <<NotImp, active_sessions, data_sources, parallelism, send_pc, file_items,
                   collection_blob, blobs_data_dir, ticket>>

\* import.rs:151-153: Error(cause), the future yields Err
ImportFileError(i) ==
    /\ send_pc = "importing"
    /\ file_pc[i] = "running"
    /\ file_pc' = [file_pc EXCEPT ![i] = "error"]
    /\ names_and_tags' =
          Append(names_and_tags, [name |-> data_sources[i], ok |-> FALSE])
    /\ UNCHANGED <<NotImp, active_sessions, data_sources, parallelism, send_pc, file_items,
                   import_sent, collection_blob, blobs_data_dir, ticket>>

\* import.rs:93-96: the stream ends without a tag, the future yields Err
ImportFileEnded(i) ==
    /\ send_pc = "importing"
    /\ file_pc[i] = "running"
    /\ file_pc' = [file_pc EXCEPT ![i] = "ended"]
    /\ names_and_tags' =
          Append(names_and_tags, [name |-> data_sources[i], ok |-> FALSE])
    /\ UNCHANGED <<NotImp, active_sessions, data_sources, parallelism, send_pc, file_items,
                   import_sent, collection_blob, blobs_data_dir, ticket>>

\* a wrong import.rs:175-176: the failed results are left out
collect_results_skipping_errors(results) ==
    [ok |-> TRUE, value |-> SelectSeq(results, LAMBDA x : x.ok)]

\* import.rs:175-176: .into_iter().collect::<anyhow::Result<Vec<_>>>()
collect_results(results) ==
    IF \A k \in DOMAIN results : results[k].ok
    THEN [ok |-> TRUE, value |-> results]
    ELSE [ok |-> FALSE, value |-> <<>>]

\* a wrong import.rs:178: the results stay in the order of completion
sort_by_name_unsorted(results) == results

RECURSIVE sort_by_name(_)
\* import.rs:178: names_and_tags.sort_by(|(a, _, _), (b, _, _)| a.cmp(b))
sort_by_name(results) ==
    IF results = <<>> THEN <<>>
    ELSE LET least == CHOOSE k \in DOMAIN results :
                         \A l \in DOMAIN results :
                            \/ results[k].name < results[l].name
                            \/ (results[k].name = results[l].name /\ k <= l)
             rest == [m \in 1..(Len(results) - 1) |->
                         IF m < least THEN results[m] ELSE results[m + 1]]
         IN  <<results[least]>> \o sort_by_name(rest)

\* import.rs:172-181: every future has finished; the first Err among the
\* results ends import, setup and send (send.rs:135 and 146)
ImportCollect ==
    /\ send_pc = "importing"
    /\ \A i \in Files : file_pc[i] \in {"done", "error", "ended"}
    /\ LET collected == collect_results(names_and_tags)
       IN  IF collected.ok
           THEN /\ names_and_tags' = sort_by_name(collected.value)
                /\ send_pc' = "store"
           ELSE /\ send_pc' = "err"
                /\ UNCHANGED names_and_tags
    /\ UNCHANGED <<NotImp, active_sessions, data_sources, parallelism, file_pc, file_items,
                   import_sent, collection_blob, blobs_data_dir, ticket>>

\* import.rs:185-194: build the Collection and store it
ImportStore ==
    /\ send_pc = "store"
    /\ \E ok \in BOOLEAN :
         IF ok
         THEN /\ collection_blob' =
                    [present |-> TRUE,
                     names |-> [k \in DOMAIN names_and_tags |->
                                   names_and_tags[k].name]]
              /\ send_pc' = "stored"
         ELSE /\ send_pc' = "err"
              /\ UNCHANGED collection_blob
    /\ UNCHANGED <<NotImp, active_sessions, data_sources, parallelism, file_pc, file_items,
                   names_and_tags, import_sent, blobs_data_dir, ticket>>

\* import.rs:196-205: Import(Completed), import returns Ok
ImportCompleted ==
    /\ send_pc = "stored"
    /\ ImpEmit(Ev("ImportCompleted", 0))
    /\ send_pc' = "ticket"
    /\ UNCHANGED <<NotImp, active_sessions, data_sources, parallelism, file_pc, file_items,
                   names_and_tags, collection_blob, blobs_data_dir, ticket>>

\* send.rs:136-170: spawn the router, make the ticket, return Ok
SendTicket ==
    /\ send_pc = "ticket"
    /\ ticket' = TRUE
    /\ send_pc' = "ok"
    /\ UNCHANGED <<NotImp, active_sessions, data_sources, parallelism, file_pc, file_items,
                   names_and_tags, import_sent, collection_blob,
                   blobs_data_dir>>

NextSend ==
    \/ SendStart
    \/ SendSetup
    \/ ImportBegin
    \/ \E i \in Files : ImportFileStart(i)
    \/ \E i \in Files : ImportFileProgress(i)
    \/ \E i \in Files : ImportFileDone(i)
    \/ \E i \in Files : ImportFileError(i)
    \/ \E i \in Files : ImportFileEnded(i)
    \/ ImportCollect
    \/ ImportStore
    \/ ImportCompleted
    \/ SendTicket

NoCollection == [present |-> FALSE, names |-> <<>>]

\* the sequences of n distinct names
Walks(n) ==
    {w \in [1..n -> 1..n] : \A a, b \in 1..n : a # b => w[a] # w[b]}

\* no send is running
ImpIdle ==
    /\ data_sources = <<>>
    /\ parallelism = 1
    /\ send_pc = "off"
    /\ file_pc = <<>>
    /\ file_items = <<>>
    /\ names_and_tags = <<>>
    /\ import_sent = <<>>
    /\ collection_blob = NoCollection
    /\ blobs_data_dir = FALSE
    /\ ticket = FALSE
    /\ active_sessions = {}

\* one send of a tree of up to MaxImportFiles files
InitSend ==
    /\ \E n \in 0..MaxImportFiles : data_sources \in Walks(n)
    /\ parallelism \in 1..MaxCpus
    /\ send_pc = "idle"
    /\ file_pc = [i \in DOMAIN data_sources |-> "queued"]
    /\ file_items = [i \in DOMAIN data_sources |-> 0]
    /\ names_and_tags = <<>>
    /\ import_sent = <<>>
    /\ collection_blob = NoCollection
    /\ blobs_data_dir = FALSE
    /\ ticket = FALSE
    /\ active_sessions = {}

\* one send from a base directory in which another send session is serving
InitSendAgain ==
    /\ \E n \in 0..MaxImportFiles : data_sources \in Walks(n)
    /\ parallelism \in 1..MaxCpus
    /\ send_pc = "idle"
    /\ file_pc = [i \in DOMAIN data_sources |-> "queued"]
    /\ file_items = [i \in DOMAIN data_sources |-> 0]
    /\ names_and_tags = <<>>
    /\ import_sent = <<>>
    /\ collection_blob = NoCollection
    /\ blobs_data_dir = FALSE
    /\ ticket = FALSE
    /\ active_sessions = {1}

(***************************************************************************)
(* The transfer registry of the app and the tasks of one transfer: the     *)
(* command (send_file or receive_file), the pipeline it awaits, and the    *)
(* progress listener task it spawns.                                       *)
(***************************************************************************)
Ids == {1, 2}

NoRecord == [transfer_type |-> "none", status |-> "absent", abort_tx |-> FALSE]

\* app lib.rs:921-931
get_transfer_status(id) == transfers[id].status

\* a wrong app lib.rs:936-938: the record is inserted when it is missing
update_transfer_status_or_insert(map, id, status) ==
    [map EXCEPT ![id] =
        IF @.status = "absent"
        THEN [transfer_type |-> "send", status |-> status, abort_tx |-> FALSE]
        ELSE [@ EXCEPT !.status = status]]

\* app lib.rs:934-939
update_transfer_status(map, id, status) ==
    IF map[id] # NoRecord
    THEN [map EXCEPT ![id].status = status]
    ELSE map

\* ids are fresh UUIDs; the model hands them out in order
Fresh(id) ==
    /\ call[id] = "none"
    /\ \A other \in Ids : other < id => call[other] # "none"

\* app lib.rs:397-607: insert the record, spawn the listener (and the
\* task that only logs the abort), call send_with_progress
send_file(id) ==
    /\ Fresh(id)
    /\ transfers' = [transfers EXCEPT ![id] =
          [transfer_type |-> "send", status |-> "initializing",
           abort_tx |-> TRUE]]
    /\ kind' = [kind EXCEPT ![id] = "send"]
    /\ call' = [call EXCEPT ![id] = "running"]
    /\ tx_open' = [tx_open EXCEPT ![id] = TRUE]
    /\ listener' = [listener EXCEPT ![id] = "listening"]
    /\ UNCHANGED <<NotReg, cwd, rx, emitted, abort_fired, after_abort>>

\* ReceiveFileRequest.output_dir: not given, or a directory
OutputDirs == {"none", "downloads"}

\* the directory the app's process is started in
LaunchDir == "launch"

\* app lib.rs:631-842: insert the record, spawn the listener, call
\* receive_with_progress
receive_file(id) ==
    /\ Fresh(id)
    /\ \E output_dir \in OutputDirs, ticket_ok \in BOOLEAN :
          \* app lib.rs:646-654 (not on Android)
          /\ cwd' = IF output_dir = "none" THEN cwd ELSE output_dir
          /\ IF ticket_ok
             THEN /\ transfers' = [transfers EXCEPT ![id] =
                       [transfer_type |-> "receive", status |-> "initializing",
                        abort_tx |-> TRUE]]
                  /\ kind' = [kind EXCEPT ![id] = "receive"]
                  /\ call' = [call EXCEPT ![id] = "running"]
                  /\ tx_open' = [tx_open EXCEPT ![id] = TRUE]
                  /\ listener' = [listener EXCEPT ![id] = "listening"]
             \* app lib.rs:657-660: the ticket does not parse
             ELSE UNCHANGED <<transfers, kind, call, tx_open, listener>>
    /\ UNCHANGED <<NotReg, rx, emitted, abort_fired, after_abort>>

\* the status the listener writes for an event, app lib.rs:538-597
StatusOf(event) ==
    CASE event = "Import" -> "importing"
      [] event = "Export" -> "exporting"
      [] event = "Download" -> "downloading"
      [] event = "Connection" -> "connection"

\* the next event of a pipeline that has produced n events: receive_internal
\* emits Download events, then export's Export events, then
\* Download(Completed); import_internal emits Import events; once the router
\* runs, handle_provider_progress emits Connection events
NextEvent(id, n) ==
    CASE kind[id] = "receive" /\ call[id] = "running" ->
            {IF n % 3 = 1 THEN "Export" ELSE "Download"}
      [] kind[id] = "send" /\ call[id] = "running" -> {"Import"}
      [] kind[id] = "send" /\ call[id] \in {"ret_ok", "done_ok"} -> {"Connection"}
      [] OTHER -> {}

\* one tx.send(event).await of the pipeline.  Nothing in the pipeline reads
\* the abort channel: send_file only logs it (app lib.rs:516-522) and
\* receive_file never polls _abort_rx (app lib.rs:643).
PipelineEmit(id) ==
    /\ emitted[id] < MaxEvents
    /\ Len(rx[id]) < ChannelCap
    /\ \E event \in NextEvent(id, emitted[id]) :
         rx' = [rx EXCEPT ![id] = Append(@, event)]
    /\ emitted' = [emitted EXCEPT ![id] = @ + 1]
    /\ after_abort' = [after_abort EXCEPT ![id] =
                          IF abort_fired[id] /\ @ < 2 THEN @ + 1 ELSE @]
    /\ UNCHANGED <<NotReg, cwd, transfers, kind, call, tx_open, listener,
                   abort_fired>>

\* send_with_progress / receive_with_progress returns.  Every sender of
\* the channel is dropped, except after a successful send, where the
\* provider task keeps its clone (send.rs:128-130, 157-161).
PipelineReturn(id) ==
    /\ call[id] = "running"
    /\ \E ok \in BOOLEAN :
         /\ call' = [call EXCEPT ![id] = IF ok THEN "ret_ok" ELSE "ret_err"]
         /\ tx_open' = [tx_open EXCEPT ![id] = ok /\ kind[id] = "send"]
    /\ UNCHANGED <<NotReg, cwd, transfers, kind, rx, listener, emitted,
                   abort_fired, after_abort>>

\* app lib.rs:608-627 and 844-886: the command publishes the result
CommandResult(id) ==
    /\ call[id] \in {"ret_ok", "ret_err"}
    /\ transfers' = update_transfer_status(transfers, id,
          IF call[id] = "ret_err" THEN "error"
          ELSE IF kind[id] = "send" THEN "serving" ELSE "completed")
    /\ call' = [call EXCEPT ![id] =
                   IF call[id] = "ret_ok" THEN "done_ok" ELSE "done_err"]
    /\ UNCHANGED <<NotReg, cwd, kind, rx, tx_open, listener, emitted, abort_fired,
                   after_abort>>

\* app lib.rs:525-600 and 760-835: the listener takes one event
ListenerRecv(id) ==
    /\ listener[id] = "listening"
    /\ rx[id] # <<>>
    /\ transfers' = update_transfer_status(transfers, id, StatusOf(Head(rx[id])))
    /\ rx' = [rx EXCEPT ![id] = Tail(@)]
    /\ UNCHANGED <<NotReg, cwd, kind, call, tx_open, listener, emitted,
                   abort_fired, after_abort>>

\* app lib.rs:602-604 and 837-839: the channel is closed and drained
ListenerEnd(id) ==
    /\ listener[id] = "listening"
    /\ rx[id] = <<>>
    /\ ~tx_open[id]
    /\ transfers' = update_transfer_status(transfers, id, "completed")
    /\ listener' = [listener EXCEPT ![id] = "ended"]
    /\ UNCHANGED <<NotReg, cwd, kind, call, rx, tx_open, emitted, abort_fired,
                   after_abort>>

\* app lib.rs:890-907
cancel_transfer(id) ==
    /\ transfers[id] # NoRecord
    /\ abort_fired' = [abort_fired EXCEPT ![id] = @ \/ transfers[id].abort_tx]
    /\ transfers' = [transfers EXCEPT ![id].status = "cancelled",
                                      ![id].abort_tx = FALSE]
    /\ UNCHANGED <<NotReg, cwd, kind, call, rx, tx_open, listener, emitted,
                   after_abort>>

\* app lib.rs:1011-1036
clear_transfers ==
    /\ \E id \in Ids : transfers[id] # NoRecord
    /\ abort_fired' = [id \in Ids |-> abort_fired[id] \/ transfers[id].abort_tx]
    /\ transfers' = [id \in Ids |-> NoRecord]
    /\ UNCHANGED <<NotReg, cwd, kind, call, rx, tx_open, listener, emitted,
                   after_abort>>

NextReg ==
    \/ \E id \in Ids : send_file(id)
    \/ \E id \in Ids : receive_file(id)
    \/ \E id \in Ids : PipelineEmit(id)
    \/ \E id \in Ids : PipelineReturn(id)
    \/ \E id \in Ids : CommandResult(id)
    \/ \E id \in Ids : ListenerRecv(id)
    \/ \E id \in Ids : ListenerEnd(id)
    \/ \E id \in Ids : cancel_transfer(id)
    \/ clear_transfers

\* the registry when the client never cancels a single transfer
NextRegClear ==
    \/ \E id \in Ids : send_file(id)
    \/ \E id \in Ids : receive_file(id)
    \/ \E id \in Ids : PipelineEmit(id)
    \/ \E id \in Ids : PipelineReturn(id)
    \/ \E id \in Ids : CommandResult(id)
    \/ \E id \in Ids : ListenerRecv(id)
    \/ \E id \in Ids : ListenerEnd(id)
    \/ clear_transfers

\* app lib.rs:342: the registry starts empty
InitReg ==
    /\ transfers = [id \in Ids |-> NoRecord]
    /\ kind = [id \in Ids |-> "none"]
    /\ call = [id \in Ids |-> "none"]
    /\ rx = [id \in Ids |-> <<>>]
    /\ tx_open = [id \in Ids |-> FALSE]
    /\ listener = [id \in Ids |-> "none"]
    /\ emitted = [id \in Ids |-> 0]
    /\ abort_fired = [id \in Ids |-> FALSE]
    /\ after_abort = [id \in Ids |-> 0]
    /\ cwd = LaunchDir

(***************************************************************************)
(* The progress channel between a pipeline of the library and the          *)
(* listener: tokio::sync::mpsc::channel(32), written with                  *)
(* `let _ = tx.send(event).await` and read with `rx.recv().await`.         *)
(***************************************************************************)
\* the k-th event of an import: Import(Started), then FileStarted,
\* FileProgress and FileCompleted of one file after the other, and
\* Import(Completed) as the last one
Script(k) ==
    IF k = 1 THEN "ImportStarted"
    ELSE IF k = MaxChanEvents THEN "ImportCompleted"
    ELSE CASE (k - 2) % 3 = 0 -> "FileStarted"
           [] (k - 2) % 3 = 1 -> "FileProgress"
           [] (k - 2) % 3 = 2 -> "FileCompleted"

\* a wrong tx.send(event).await: the event is dropped when the channel is
\* full (try_send)
ProducerSend_try_send ==
    /\ ~waiting
    /\ produced < MaxChanEvents
    /\ chan' = IF Len(chan) < ChannelCap
               THEN Append(chan, Ev(Script(produced + 1), produced + 1))
               ELSE chan
    /\ produced' = produced + 1
    /\ UNCHANGED <<NotChan, waiting, awaited, received>>

\* import.rs:56-65, 73-83, 98-166, 196-203: tx.send(event).await.  With room
\* in the channel the event is queued at once, with a full channel the
\* producer is parked until the consumer makes room.
ProducerSend ==
    /\ ~waiting
    /\ produced < MaxChanEvents
    /\ IF Len(chan) < ChannelCap
       THEN /\ chan' = Append(chan, Ev(Script(produced + 1), produced + 1))
            /\ produced' = produced + 1
            /\ UNCHANGED <<waiting, awaited>>
       ELSE /\ waiting' = TRUE
            /\ awaited' = awaited \cup {produced + 1}
            /\ UNCHANGED <<chan, produced>>
    /\ UNCHANGED <<NotChan, received>>

\* the parked tx.send(event).await completes once there is capacity
ProducerResume ==
    /\ waiting
    /\ Len(chan) < ChannelCap
    /\ chan' = Append(chan, Ev(Script(produced + 1), produced + 1))
    /\ produced' = produced + 1
    /\ waiting' = FALSE
    /\ UNCHANGED <<NotChan, awaited, received>>

\* app lib.rs:525 and 760: while let Some(event) = rx.recv().await
ConsumerRecv ==
    /\ chan # <<>>
    /\ received' = Append(received, Head(chan))
    /\ chan' = Tail(chan)
    /\ UNCHANGED <<NotChan, produced, waiting, awaited>>

NextChan ==
    \/ ProducerSend
    \/ ProducerResume
    \/ ConsumerRecv

\* app lib.rs:416: the channel is new and empty
InitChan ==
    /\ chan = <<>>
    /\ produced = 0
    /\ waiting = FALSE
    /\ awaited = {}
    /\ received = <<>>

(***************************************************************************)
(* Functions: apply_options (types.rs), the discovery settings of the two  *)
(* endpoints (send.rs, receive.rs), get_or_create_secret (lib.rs) and      *)
(* fuzzy_score (cli tui/file_search.rs).                                   *)
(***************************************************************************)
\* iroh::TransportAddr: a relay URL or an IP socket address
TransportAddrs ==
    {[kind |-> "Relay", v |-> 1], [kind |-> "Ip", v |-> 1], [kind |-> "Ip", v |-> 2]}

EndpointIds == {1, 2}

\* iroh::EndpointAddr
EndpointAddrs == [id : EndpointIds, addrs : SUBSET TransportAddrs]

AddrInfoOptions == {"Id", "RelayAndAddresses", "Relay", "Addresses"}

\* a wrong types.rs:62-69: Relay keeps every address
apply_options_relay_keeps_all(addr, opts) ==
    CASE opts = "Id" -> [addr EXCEPT !.addrs = {}]
      [] opts = "RelayAndAddresses" -> addr
      [] opts = "Relay" -> addr
      [] opts = "Addresses" ->
            [addr EXCEPT !.addrs = {a \in @ : a.kind = "Ip"}]

\* types.rs:54-79
apply_options(addr, opts) ==
    CASE opts = "Id" -> [addr EXCEPT !.addrs = {}]
      [] opts = "RelayAndAddresses" -> addr
      [] opts = "Relay" ->
            [addr EXCEPT !.addrs = {a \in @ : a.kind = "Relay"}]
      [] opts = "Addresses" ->
            [addr EXCEPT !.addrs = {a \in @ : a.kind = "Ip"}]

\* send.rs:54-56: the sender publishes its address when the ticket will
\* carry the endpoint id only
send_discovery(ticket_type) == ticket_type = "Id"

\* a wrong receive.rs:47: only the relay URLs are looked at
receive_discovery_relay_only(addr) ==
    ~\E a \in addr.addrs : a.kind = "Relay"

\* receive.rs:47-49: the receiver resolves the endpoint id by DNS when the
\* ticket carries neither a relay URL nor an IP address
receive_discovery(addr) ==
    /\ ~\E a \in addr.addrs : a.kind = "Relay"
    /\ ~\E a \in addr.addrs : a.kind = "Ip"

\* lib.rs:42: a secret key has 32 bytes
KeyBytes == 32

\* what std::env::var("IROH_SECRET") yields: an error (the variable is not
\* present, or is not unicode), or a string of `len` characters that are all
\* hex digits or not; `val` stands for the digits
SecretEnvs ==
    [var : {"NotPresent", "NotUnicode"}, len : {0}, hex : {FALSE}, val : {0}] \cup
    {e \in [var : {"Ok"},
             len : {0, 2 * KeyBytes - 2, 2 * KeyBytes - 1, 2 * KeyBytes,
                    2 * KeyBytes + 2},
             hex : BOOLEAN,
             val : {1, 2}] : e.len = 0 => e.hex}

\* hex::decode: two hex digits make one byte
hex_decode(env) ==
    IF env.hex /\ env.len % 2 = 0
    THEN [ok |-> TRUE, n |-> env.len \div 2, val |-> env.val]
    ELSE [ok |-> FALSE, n |-> 0, val |-> 0]

\* lib.rs:37-55
get_or_create_secret(env) ==
    IF env.var = "Ok"
    THEN LET bytes == hex_decode(env)
         IN  IF ~bytes.ok
             THEN [ok |-> FALSE, err |-> "invalid hex in secret",
                   fresh |-> FALSE, key |-> 0]
             ELSE IF bytes.n # KeyBytes
             THEN [ok |-> FALSE, err |-> "secret key must be 32 bytes",
                   fresh |-> FALSE, key |-> 0]
             ELSE [ok |-> TRUE, err |-> "", fresh |-> FALSE, key |-> bytes.val]
    ELSE [ok |-> TRUE, err |-> "", fresh |-> TRUE, key |-> 0]

\* the characters of the file names and of the queries
Chars == {"a", "b", "_"}

Separators == {"_", "-", "/", "."}

Strings(n) == UNION {[1..k -> Chars] : k \in 0..n}

NoScore == [some |-> FALSE, score |-> 0]

\* file_search.rs:259-262
length_bonus(text) ==
    IF Len(text) > 0
    THEN (IF 1000 \div Len(text) < 10 THEN 1000 \div Len(text) ELSE 10)
    ELSE 0

\* file_search.rs:225-245: what the match of one query character at `at`
\* adds to the score; positions count from 1, 0 stands for no earlier match
match_score(text, at, prev) ==
    10
    + (IF prev # 0 /\ at = prev + 1 THEN 30
       ELSE IF prev # 0 /\ at = prev + 2 THEN 5 ELSE 0)
    + (IF at = 1 THEN 15
       ELSE IF text[at - 1] \in Separators THEN 15 ELSE 0)

\* a wrong file_search.rs:220: every query character is looked for from the
\* start of the text
RECURSIVE scan_from_start(_, _, _, _, _, _)
scan_from_start(query, text, qi, ti, score, prev) ==
    IF qi > Len(query)
    THEN [some |-> TRUE, score |-> score + length_bonus(text)]
    ELSE LET found == {i \in 1..Len(text) : text[i] = query[qi]}
         IN  IF found = {}
             THEN NoScore
             ELSE LET at == CHOOSE i \in found : \A j \in found : i <= j
                  IN  scan_from_start(query, text, qi + 1, at + 1,
                                      score + match_score(text, at, prev), at)

\* file_search.rs:217-256: the query characters are looked for one after the
\* other, each from where the text iterator stands (`ti`)
RECURSIVE scan(_, _, _, _, _, _)
scan(query, text, qi, ti, score, prev) ==
    IF qi > Len(query)
    THEN [some |-> TRUE, score |-> score + length_bonus(text)]
    ELSE LET found == {i \in ti..Len(text) : text[i] = query[qi]}
         IN  IF found = {}
             THEN NoScore
             ELSE LET at == CHOOSE i \in found : \A j \in found : i <= j
                  IN  scan(query, text, qi + 1, at + 1,
                           score + match_score(text, at, prev), at)

\* file_search.rs:207-265
fuzzy_score(query, text) ==
    IF query = <<>>
    THEN [some |-> TRUE, score |-> 0]
    ELSE scan(query, text, 1, 1, 0, 0)

\* the characters of the entry names of a collection
PathChars == {"a", ".", "/", "\\", "NUL"}

EntryNames == UNION {[1..k -> PathChars] : k \in 0..MaxName}

\* the export directory, as path components
ExportRoot == <<<<"o", "u", "t">>>>

\* str::split('/'): the pieces between the slashes, at least one
RECURSIVE split(_, _, _)
split(str, i, pieces) ==
    IF i > Len(str)
    THEN pieces
    ELSE IF str[i] = "/"
    THEN split(str, i + 1, Append(pieces, <<>>))
    ELSE split(str, i + 1,
               [pieces EXCEPT ![Len(pieces)] = Append(@, str[i])])

\* lib.rs:106-112: the component must not contain `/`
validate_path_component(component) ==
    \A i \in 1..Len(component) : component[i] # "/"

\* import.rs:209-217: every piece of the name is validated and pushed
get_export_path(root, entry) ==
    LET pieces == split(entry, 1, <<<<>>>>)
    IN  IF \A i \in 1..Len(pieces) : validate_path_component(pieces[i])
        THEN [ok |-> TRUE, path |-> root \o pieces]
        ELSE [ok |-> FALSE, path |-> <<>>]

\* the hash of the metadata blob of a collection, and the hashes of files
MetaHash == 0

FileHashes == {1, 2}

\* the size of the metadata blob and the size of one hash in the hash
\* sequence, in the units of the file sizes
MetaSize == 1

HashSize == 1

\* what the sizes returned by iroh-blobs' get_hash_seq_and_sizes hold: the
\* sizes of the children of the hash sequence (the metadata blob, then the
\* files), or the size of the hash sequence itself before them
SizeLayouts == {"children", "root_and_children"}

\* receive.rs:124-127: the hash sequence of a collection is the hash of
\* its metadata blob and then the hashes of its files
hash_seq_of(entries) == <<MetaHash>> \o entries

sizes_of(entries, size_of, layout) ==
    (IF layout = "root_and_children"
     THEN <<HashSize * (Len(entries) + 1)>> ELSE <<>>)
    \o <<MetaSize>>
    \o [i \in 1..Len(entries) |-> size_of[entries[i]]]

RECURSIVE sum_from(_, _)
sum_from(sizes, i) ==
    IF i > Len(sizes) THEN 0 ELSE sizes[i] + sum_from(sizes, i + 1)

\* receive.rs:129: sizes.iter().copied().sum()
total_size(sizes) == sum_from(sizes, 1)

\* receive.rs:130: sizes.iter().skip(2).copied().sum()
payload_size(sizes) == sum_from(sizes, 3)

\* receive.rs:131: sizes.len().saturating_sub(1)
total_files(sizes) == IF Len(sizes) >= 1 THEN Len(sizes) - 1 ELSE 0

\* receive.rs:164-181: for every file of the collection, the size at the
\* index of the first position of its hash in the hash sequence; the
\* positions and the indices of the code count from 0, the sequences from 1
RECURSIVE actual_payload_size(_, _, _, _)
actual_payload_size(entries, hash_seq, sizes, i) ==
    IF i > Len(entries)
    THEN 0
    ELSE LET found == {p \in 1..Len(hash_seq) : hash_seq[p] = entries[i]}
             at == CHOOSE p \in found : \A q \in found : p <= q
         IN  (IF found # {} /\ at - 1 < Len(sizes) THEN sizes[at] ELSE 0)
             + actual_payload_size(entries, hash_seq, sizes, i + 1)

(***************************************************************************)
(* The calls: one function is called on arguments drawn at the start.      *)
(* A ticket is made by the sender and then used by the receiver.           *)
(***************************************************************************)
NoRet == [none |-> TRUE]

CallIdle ==
    /\ called = "none"
    /\ arg = NoRet
    /\ ret = NoRet
    /\ returned = 0

InitCalls ==
    /\ ret = NoRet
    /\ returned = 0
    /\ \/ /\ called = "apply_options"
          /\ arg \in [addr : EndpointAddrs, opts : AddrInfoOptions]
       \/ /\ called = "ticket"
          /\ arg \in [addr : EndpointAddrs, ticket_type : AddrInfoOptions]
       \/ /\ called = "get_or_create_secret"
          /\ arg \in [env : SecretEnvs]
       \/ /\ called = "fuzzy_score"
          /\ arg \in [query : Strings(MaxQuery), text : Strings(MaxText)]
       \/ /\ called = "receive_sizes"
          /\ arg \in [entries : UNION {[1..k -> FileHashes] : k \in 0..MaxEntries},
                      size_of : [FileHashes -> 0..MaxFileSize],
                      layout : SizeLayouts]
       \/ /\ called = "get_export_path"
          /\ arg \in [root : {ExportRoot}, name : EntryNames]

\* types.rs:54-79
CallApplyOptions ==
    /\ called = "apply_options" /\ returned = 0
    /\ ret' = apply_options(arg.addr, arg.opts)
    /\ returned' = 1
    /\ UNCHANGED <<NotCall, called, arg>>

\* send.rs:54-56, 152-155: the sender builds its endpoint and makes the ticket
SendMakeTicket ==
    /\ called = "ticket" /\ returned = 0
    /\ ret' = [publish |-> send_discovery(arg.ticket_type),
               ticket |-> apply_options(arg.addr, arg.ticket_type),
               resolve |-> FALSE]
    /\ returned' = 1
    /\ UNCHANGED <<NotCall, called, arg>>

\* receive.rs:47-49: the receiver builds its endpoint for this ticket
ReceiveBuildEndpoint ==
    /\ called = "ticket" /\ returned = 1
    /\ ret' = [ret EXCEPT !.resolve = receive_discovery(ret.ticket)]
    /\ returned' = 2
    /\ UNCHANGED <<NotCall, called, arg>>

\* lib.rs:37-55
CallGetOrCreateSecret ==
    /\ called = "get_or_create_secret" /\ returned = 0
    /\ ret' = get_or_create_secret(arg.env)
    /\ returned' = 1
    /\ UNCHANGED <<NotCall, called, arg>>

\* file_search.rs:207-265
CallFuzzyScore ==
    /\ called = "fuzzy_score" /\ returned = 0
    /\ ret' = fuzzy_score(arg.query, arg.text)
    /\ returned' = 1
    /\ UNCHANGED <<NotCall, called, arg>>

\* import.rs:209-217, called by export.rs:54 for every entry
CallGetExportPath ==
    /\ called = "get_export_path" /\ returned = 0
    /\ ret' = get_export_path(arg.root, arg.name)
    /\ returned' = 1
    /\ UNCHANGED <<NotCall, called, arg>>

\* receive.rs:124-131: the sizes are fetched and summed
ReceiveGetSizes ==
    /\ called = "receive_sizes" /\ returned = 0
    /\ LET sizes == sizes_of(arg.entries, arg.size_of, arg.layout)
       IN  ret' = [hash_seq |-> hash_seq_of(arg.entries),
                   sizes |-> sizes,
                   total_size |-> total_size(sizes),
                   payload_size |-> payload_size(sizes),
                   total_files |-> total_files(sizes),
                   metadata |-> [sent |-> FALSE, total_size |-> 0,
                                 file_count |-> 0]]
    /\ returned' = 1
    /\ UNCHANGED <<NotCall, called, arg>>

\* receive.rs:161-200: the collection is loaded and Metadata is sent
ReceiveMetadata ==
    /\ called = "receive_sizes" /\ returned = 1
    /\ ret' = [ret EXCEPT !.metadata =
          [sent |-> TRUE,
           total_size |-> actual_payload_size(arg.entries, ret.hash_seq,
                                              ret.sizes, 1),
           file_count |-> ret.total_files]]
    /\ returned' = 2
    /\ UNCHANGED <<NotCall, called, arg>>

NextCalls ==
    \/ ReceiveGetSizes
    \/ ReceiveMetadata
    \/ CallGetExportPath
    \/ CallApplyOptions
    \/ SendMakeTicket
    \/ ReceiveBuildEndpoint
    \/ CallGetOrCreateSecret
    \/ CallFuzzyScore

(***************************************************************************)
(* The nearby discovery service, once start() has returned.                *)
(* The write lock is only held inside blocks that do not suspend, so each  *)
(* such block is one step that waits until no reader holds the lock.  The  *)
(* read lock is held across `tx.send(..).await` and across                 *)
(* `socket.send_to(..).await`; a task suspended there is in `readers`.     *)
(***************************************************************************)
\* the fingerprints of the other devices, and our own
Fingerprints == {1, 2}

OwnFingerprint == 0

\* the fingerprints a message or a request can claim
Claimed == Fingerprints \cup {OwnFingerprint}

\* TicketRequest.ticket and TicketRequest.message (0: no message)
TicketRequests == {[ticket |-> 1, message |-> 0], [ticket |-> 2, message |-> 1]}

\* nearby.rs:403: a device not seen for more than 30 s is expired
ExpiryMs == 30000

\* nearby.rs:220: mpsc::channel(100)
EventCap == 100

\* no entry in NearbyState.devices
NoDevice ==
    [known |-> FALSE, last_seen |-> 0, available |-> FALSE, pending_ticket |-> 0]

\* nearby.rs:140-153
NearbyEvent(t, fp, tk, msg, n) ==
    [t |-> t, fp |-> fp, ticket |-> tk, message |-> msg, n |-> n]

\* the number of events queued in the event channel
ChannelLen == backlog + Len(nearby_events) - taken

\* tx.send(event).await completes at once when the channel has room
Room == ChannelLen < EventCap

IdleListener ==
    [pc |-> "idle", fp |-> 0, announce |-> FALSE, now |-> 0, event |-> "none",
     n |-> 0]

IdleHttp ==
    [pc |-> "idle", fp |-> 0, ticket |-> 0, message |-> 0, auto |-> FALSE,
     during |-> {}]

IdleClient == [pc |-> "idle", now |-> 0]

\* nearby.rs:514-526: under the write lock, the device is inserted; the
\* event tells whether the fingerprint was in the table
Announced(lt) ==
    [devices EXCEPT ![lt.fp] =
        [known |-> TRUE, last_seen |-> lt.now, available |-> TRUE,
         pending_ticket |-> 0]]

DeviceEvent(lt) ==
    NearbyEvent(IF devices[lt.fp].known THEN "DeviceUpdated"
                ELSE "DeviceDiscovered", lt.fp, 0, 0, 0)

\* a wrong nearby.rs:538-540: every message of another device is answered
responds_to_every_message(lt) == server_running

\* nearby.rs:538-540: an announcement is answered while our server runs
responds(lt) == lt.announce /\ server_running

\* nearby.rs:541-554: the response, sent to the address the datagram came
\* from; `n` tells which datagram it answers and `answers` the announce
\* flag of that datagram
MulticastResponse(lt) ==
    [to |-> lt.fp, announce |-> FALSE, n |-> lt.n, answers |-> lt.announce]

\* nearby.rs:529-557: under the read lock, tx.send(event).await; then, for
\* an announcement, under the read lock again, socket.send_to(..).await of
\* the response.  The task is suspended, holding the lock, when the channel
\* is full and when the socket is not ready
MulticastContinue(lt, event, ready) ==
    IF ~Room
    THEN /\ listener_task' = [lt EXCEPT !.pc = "send_wait", !.event = event.t]
         /\ readers' = readers \cup {"listener"}
         /\ UNCHANGED <<nearby_events, replies>>
    ELSE /\ nearby_events' = Append(nearby_events, event)
         /\ IF responds(lt) /\ ~ready
            THEN /\ listener_task' = [lt EXCEPT !.pc = "socket_wait"]
                 /\ readers' = readers \cup {"listener"}
                 /\ UNCHANGED replies
            ELSE /\ listener_task' = IdleListener
                 /\ readers' = readers \ {"listener"}
                 /\ replies' = IF responds(lt)
                               THEN Append(replies, MulticastResponse(lt))
                               ELSE replies

\* nearby.rs:460-463, 479-557: a datagram is received and handled up to the
\* first suspension.  Our own messages are ignored; `now` is read and the
\* device built before the write lock is asked for
MulticastRecv ==
    /\ listener_task.pc = "idle"
    /\ heard < MaxDatagrams
    /\ heard' = heard + 1
    /\ \E fp \in Claimed, announce, ready \in BOOLEAN :
          LET lt == [pc |-> "upsert", fp |-> fp, announce |-> announce,
                     now |-> now, event |-> "none", n |-> heard + 1]
          IN  IF fp = OwnFingerprint
              THEN UNCHANGED <<devices, nearby_events, readers, listener_task,
                               replies>>
              ELSE IF readers # {}
              THEN /\ listener_task' = lt
                   /\ UNCHANGED <<devices, nearby_events, readers, replies>>
              ELSE /\ devices' = Announced(lt)
                   /\ MulticastContinue(lt, DeviceEvent(lt), ready)
    /\ UNCHANGED <<NotNear, server_running, shutdown, auto_accept, now, backlog, taken, http_task,
                   responses, client>>

\* the write lock is granted once no reader holds the lock
MulticastUpsert ==
    /\ listener_task.pc = "upsert"
    /\ readers = {}
    /\ devices' = Announced(listener_task)
    /\ \E ready \in BOOLEAN :
          MulticastContinue(listener_task, DeviceEvent(listener_task), ready)
    /\ UNCHANGED <<NotNear, server_running, shutdown, auto_accept, now, backlog, taken, http_task,
                   responses, client, heard>>

\* the suspended tx.send(event).await completes once the channel has room
MulticastSendEventResume ==
    /\ listener_task.pc = "send_wait"
    /\ Room
    /\ \E ready \in BOOLEAN :
          MulticastContinue(listener_task,
              NearbyEvent(listener_task.event, listener_task.fp, 0, 0, 0), ready)
    /\ UNCHANGED <<NotNear, server_running, shutdown, devices, auto_accept, now, backlog, taken,
                   http_task, responses, client, heard>>

\* the suspended socket.send_to(..).await completes
MulticastRespondResume ==
    /\ listener_task.pc = "socket_wait"
    /\ listener_task' = IdleListener
    /\ readers' = readers \ {"listener"}
    /\ replies' = Append(replies, MulticastResponse(listener_task))
    /\ UNCHANGED <<NotNear, server_running, shutdown, devices, auto_accept, now, backlog, nearby_events,
                   taken, http_task, responses, client, heard>>

\* nearby.rs:630-652: under the write lock, the ticket is noted at the
\* device, or the device is inserted
TicketNoted(t) ==
    [devices EXCEPT ![t.fp] =
        IF @.known
        THEN [@ EXCEPT !.pending_ticket = t.ticket, !.last_seen = now]
        ELSE [known |-> TRUE, last_seen |-> now, available |-> TRUE,
              pending_ticket |-> t.ticket]]

\* nearby.rs:685-694
TicketResponse(t) ==
    [fp |-> t.fp, ticket |-> t.ticket, message |-> t.message,
     accepted |-> t.auto, during |-> t.during]

\* a wrong nearby.rs:655-683: no event for a ticket accepted automatically
TicketContinue_unless_accepted(t) ==
    IF t.auto
    THEN /\ responses' = Append(responses, TicketResponse(t))
         /\ http_task' = IdleHttp
         /\ readers' = readers \ {"http"}
         /\ UNCHANGED nearby_events
    ELSE IF Room
    THEN /\ nearby_events' = Append(nearby_events,
               NearbyEvent("TicketReceived", t.fp, t.ticket, t.message,
                           Len(responses) + 1))
         /\ responses' = Append(responses, TicketResponse(t))
         /\ http_task' = IdleHttp
         /\ readers' = readers \ {"http"}
    ELSE /\ http_task' = [t EXCEPT !.pc = "send_wait"]
         /\ readers' = readers \cup {"http"}
         /\ UNCHANGED <<nearby_events, responses>>

\* nearby.rs:655-694: under the read lock, tx.send(TicketReceived).await,
\* then the response; `n` of the event numbers the requests.  The handler is
\* suspended, holding the lock, when the channel is full
TicketContinue(t) ==
    IF Room
    THEN /\ nearby_events' = Append(nearby_events,
               NearbyEvent("TicketReceived", t.fp, t.ticket, t.message,
                           Len(responses) + 1))
         /\ responses' = Append(responses, TicketResponse(t))
         /\ http_task' = IdleHttp
         /\ readers' = readers \ {"http"}
    ELSE /\ http_task' = [t EXCEPT !.pc = "send_wait"]
         /\ readers' = readers \cup {"http"}
         /\ UNCHANGED <<nearby_events, responses>>

\* nearby.rs:616-694: a ticket is posted and handled up to the first
\* suspension; auto_accept is read first
TicketPost ==
    /\ http_task.pc = "idle"
    /\ Len(responses) < MaxTickets
    /\ \E fp \in Claimed, request \in TicketRequests :
          LET t == [pc |-> "upsert", fp |-> fp, ticket |-> request.ticket,
                    message |-> request.message, auto |-> auto_accept,
                    during |-> {auto_accept}]
          IN  IF readers # {}
              THEN /\ http_task' = t
                   /\ UNCHANGED <<devices, nearby_events, responses, readers>>
              ELSE /\ devices' = TicketNoted(t)
                   /\ TicketContinue(t)
    /\ UNCHANGED <<NotNear, server_running, shutdown, replies, auto_accept, now, backlog, taken, listener_task,
                   client, heard>>

\* the write lock is granted once no reader holds the lock
TicketUpsert ==
    /\ http_task.pc = "upsert"
    /\ readers = {}
    /\ devices' = TicketNoted(http_task)
    /\ TicketContinue(http_task)
    /\ UNCHANGED <<NotNear, server_running, shutdown, replies, auto_accept, now, backlog, taken, listener_task,
                   client, heard>>

\* the suspended tx.send(TicketReceived).await completes once the channel
\* has room
TicketSendEventResume ==
    /\ http_task.pc = "send_wait"
    /\ Room
    /\ TicketContinue(http_task)
    /\ UNCHANGED <<NotNear, server_running, shutdown, replies, devices, auto_accept, now, backlog, taken,
                   listener_task, client, heard>>

\* nearby.rs:244-246: under the write lock.  `during` of the ticket handler
\* notes the values auto_accept has while a request is handled
set_auto_accept(v) ==
    /\ client.pc = "idle"
    /\ readers = {}
    /\ auto_accept' = v
    /\ http_task' = IF http_task.pc = "idle"
                    THEN http_task
                    ELSE [http_task EXCEPT !.during = @ \cup {v}]
    /\ UNCHANGED <<NotNear, server_running, shutdown, replies, devices, now, backlog, nearby_events, taken,
                   readers, listener_task, responses, client, heard>>

\* nearby.rs:399-413: the devices not seen for more than 30 s before `at`
\* are marked unavailable
Swept(at) ==
    [fp \in Claimed |->
        IF devices[fp].known /\ at - devices[fp].last_seen > ExpiryMs
        THEN [devices[fp] EXCEPT !.available = FALSE]
        ELSE devices[fp]]

\* nearby.rs:393-413: after the announcement `now` is read and the write
\* lock asked for; no event is sent
RefreshContinue ==
    IF readers \ {"client"} = {}
    THEN /\ devices' = Swept(now)
         /\ client' = IdleClient
    ELSE /\ client' = [pc |-> "sweep", now |-> now]
         /\ UNCHANGED devices

\* nearby.rs:393-395, 301-326: refresh sends an announcement, under the read
\* lock; the socket is ready or the call is suspended holding the lock
refresh ==
    /\ client.pc = "idle"
    /\ \E ready \in BOOLEAN :
          IF ready
          THEN /\ RefreshContinue
               /\ UNCHANGED readers
          ELSE /\ client' = [pc |-> "announce_wait", now |-> 0]
               /\ readers' = readers \cup {"client"}
               /\ UNCHANGED devices
    /\ UNCHANGED <<NotNear, server_running, shutdown, replies, auto_accept, now, backlog, nearby_events, taken,
                   listener_task, http_task, responses, heard>>

\* the suspended socket.send_to(..).await of the announcement completes
RefreshAnnounceResume ==
    /\ client.pc = "announce_wait"
    /\ RefreshContinue
    /\ readers' = readers \ {"client"}
    /\ UNCHANGED <<NotNear, server_running, shutdown, replies, auto_accept, now, backlog, nearby_events, taken,
                   listener_task, http_task, responses, heard>>

\* the write lock is granted once no reader holds the lock
RefreshSweep ==
    /\ client.pc = "sweep"
    /\ readers = {}
    /\ devices' = Swept(client.now)
    /\ client' = IdleClient
    /\ UNCHANGED <<NotNear, server_running, shutdown, replies, auto_accept, now, backlog, nearby_events, taken,
                   readers, listener_task, http_task, responses, heard>>

\* nearby.rs:382-389: poll_event and next_event take the oldest event
next_event ==
    /\ client.pc = "idle"
    /\ taken < MaxTaken
    /\ ChannelLen > 0
    /\ taken' = taken + 1
    /\ UNCHANGED <<NotNear, server_running, shutdown, replies, devices, auto_accept, now, backlog, nearby_events,
                   readers, listener_task, http_task, responses, client, heard>>

\* nearby.rs:292-299: stop() queues the shutdown message, drops its handle
\* of the socket and asks for the write lock to clear server_running; the
\* HTTP server task (nearby.rs:587-591) is left as it is
stop ==
    /\ client.pc = "idle"
    /\ ~shutdown /\ server_running
    /\ shutdown' = TRUE
    /\ IF readers = {}
       THEN /\ server_running' = FALSE
            /\ UNCHANGED client
       ELSE /\ client' = [pc |-> "stop_wait", now |-> 0]
            /\ UNCHANGED server_running
    /\ UNCHANGED <<NotNear, devices, auto_accept, now, backlog, nearby_events,
                   taken, readers, listener_task, http_task, responses, heard,
                   replies>>

\* the write lock of stop() is granted once no reader holds the lock
StopResume ==
    /\ client.pc = "stop_wait"
    /\ readers = {}
    /\ server_running' = FALSE
    /\ client' = IdleClient
    /\ UNCHANGED <<NotNear, devices, auto_accept, now, backlog, nearby_events,
                   taken, readers, listener_task, http_task, responses, heard,
                   shutdown, replies>>

\* nearby.rs:456-460: between two datagrams the listener takes the shutdown
\* message and ends; select! may as well take a datagram that is ready
ListenerShutdown ==
    /\ listener_task.pc = "idle"
    /\ shutdown
    /\ listener_task' = [IdleListener EXCEPT !.pc = "ended"]
    /\ UNCHANGED <<NotNear, devices, auto_accept, now, backlog, nearby_events,
                   taken, readers, http_task, responses, client, heard,
                   server_running, shutdown, replies>>

\* time passes; no task of the service is driven by a timer
Tick ==
    /\ now < MaxTicks * TickMs
    /\ now' = now + TickMs
    /\ UNCHANGED <<NotNear, server_running, shutdown, replies, devices, auto_accept, backlog, nearby_events,
                   taken, readers, listener_task, http_task, responses, client,
                   heard>>

\* the ticket handler and the client's calls that matter to it
NextTicket ==
    \/ TicketPost
    \/ TicketUpsert
    \/ TicketSendEventResume
    \/ \E v \in BOOLEAN : set_auto_accept(v)
    \/ refresh
    \/ RefreshAnnounceResume
    \/ RefreshSweep
    \/ next_event

\* the listener, the ticket handler and the client
NextNear ==
    \/ MulticastRecv
    \/ MulticastUpsert
    \/ MulticastSendEventResume
    \/ MulticastRespondResume
    \/ TicketPost
    \/ TicketUpsert
    \/ TicketSendEventResume
    \/ \E v \in BOOLEAN : set_auto_accept(v)
    \/ next_event

\* the listener, the ticket handler and the client that stops the service
NextStop ==
    \/ MulticastRecv
    \/ MulticastUpsert
    \/ MulticastSendEventResume
    \/ MulticastRespondResume
    \/ ListenerShutdown
    \/ TicketPost
    \/ TicketUpsert
    \/ TicketSendEventResume
    \/ stop
    \/ StopResume
    \/ next_event

\* the listener and the client that stops the service; no other task holds
\* the read lock when a datagram arrives, so the write lock is granted at once
NextReply ==
    \/ MulticastRecv
    \/ MulticastSendEventResume
    \/ MulticastRespondResume
    \/ ListenerShutdown
    \/ stop
    \/ StopResume
    \/ next_event

\* the listener and the client's refresh, as time passes
NextSweep ==
    \/ MulticastRecv
    \/ MulticastUpsert
    \/ MulticastSendEventResume
    \/ MulticastRespondResume
    \/ refresh
    \/ RefreshAnnounceResume
    \/ RefreshSweep
    \/ next_event
    \/ Tick

\* the service when no device has been heard of
NearStart ==
    /\ devices = [fp \in Claimed |-> NoDevice]
    /\ auto_accept = FALSE
    /\ now = 0
    /\ nearby_events = <<>>
    /\ taken = 0
    /\ readers = {}
    /\ listener_task = IdleListener
    /\ http_task = IdleHttp
    /\ responses = <<>>
    /\ client = IdleClient
    /\ heard = 0
    /\ server_running = TRUE
    /\ shutdown = FALSE
    /\ replies = <<>>

NearIdle == NearStart /\ backlog = 0

\* the service is new, or device 1 has announced itself again and again and
\* the client has not taken the events: one more event fills the channel
InitNear ==
    \/ NearStart /\ backlog = 0
    \/ /\ backlog = EventCap - 1
       /\ devices = [fp \in Claimed |->
             IF fp = 1
             THEN [known |-> TRUE, last_seen |-> 0, available |-> TRUE,
                   pending_ticket |-> 0]
             ELSE NoDevice]
       /\ auto_accept = FALSE
       /\ now = 0
       /\ nearby_events = <<>>
       /\ taken = 0
       /\ readers = {}
       /\ listener_task = IdleListener
       /\ http_task = IdleHttp
       /\ responses = <<>>
       /\ client = IdleClient
       /\ heard = 0
       /\ server_running = TRUE
       /\ shutdown = FALSE
       /\ replies = <<>>

(***************************************************************************)
(* handle_provider_progress (send.rs:173-276).  The provider reports a     *)
(* connection, a get request on it with the channel of its updates, the    *)
(* updates, and the end of the connection, in this order; the loop takes   *)
(* the messages and a task spawned per request takes the updates.          *)
(***************************************************************************)
ConnectionIds == {1, 2}

ProviderMsg(t, c) == [t |-> t, conn |-> c]

\* the provider reports the next thing about connection c: notifications go
\* to the channel of the loop, updates to the channel of the request
ProviderReport(c) ==
    /\ \/ /\ provider[c] = "new"
          /\ provider' = [provider EXCEPT ![c] = "connected"]
          /\ recv_queue' = Append(recv_queue, ProviderMsg("ClientConnected", c))
          /\ UNCHANGED <<request_rx, updates>>
       \/ /\ provider[c] = "connected"
          /\ provider' = [provider EXCEPT ![c] = "requested"]
          /\ recv_queue' = Append(recv_queue, ProviderMsg("GetRequestReceived", c))
          /\ UNCHANGED <<request_rx, updates>>
       \/ /\ provider[c] = "requested"
          /\ provider' = [provider EXCEPT ![c] = "started"]
          /\ request_rx' = [request_rx EXCEPT ![c] = Append(@, "Started")]
          /\ UNCHANGED <<recv_queue, updates>>
       \/ /\ provider[c] = "started"
          /\ updates[c] < MaxUpdates
          /\ updates' = [updates EXCEPT ![c] = @ + 1]
          /\ request_rx' = [request_rx EXCEPT ![c] = Append(@, "Progress")]
          /\ UNCHANGED <<provider, recv_queue>>
       \/ /\ provider[c] = "started"
          /\ provider' = [provider EXCEPT ![c] = "finished"]
          /\ \E last \in {"Completed", "Aborted"} :
                request_rx' = [request_rx EXCEPT ![c] = Append(@, last)]
          /\ UNCHANGED <<recv_queue, updates>>
       \/ /\ provider[c] \in {"connected", "finished"}
          /\ provider' = [provider EXCEPT ![c] = "closed"]
          /\ recv_queue' = Append(recv_queue, ProviderMsg("ConnectionClosed", c))
          /\ UNCHANGED <<request_rx, updates>>
    /\ UNCHANGED <<NotProv, request_task, connections, forwarded>>

\* send.rs:181-262: the loop takes one ProviderMessage
LoopRecv ==
    /\ recv_queue # <<>>
    /\ recv_queue' = Tail(recv_queue)
    /\ LET item == Head(recv_queue)
       IN  CASE item.t = "ClientConnected" ->
                  \* send.rs:187-206
                  /\ connections' = connections \cup {item.conn}
                  /\ forwarded' = Append(forwarded, item)
                  /\ UNCHANGED request_task
             [] item.t = "ConnectionClosed" ->
                  \* send.rs:207-215
                  /\ connections' = connections \ {item.conn}
                  /\ forwarded' = IF item.conn \in connections
                                  THEN Append(forwarded, item)
                                  ELSE forwarded
                  /\ UNCHANGED request_task
             [] item.t = "GetRequestReceived" ->
                  \* send.rs:216-222: the forwarding task is spawned
                  /\ request_task' = [request_task EXCEPT ![item.conn] = "running"]
                  /\ UNCHANGED <<connections, forwarded>>
    /\ UNCHANGED <<NotProv, provider, request_rx, updates>>

\* send.rs:223-258: the task of a request takes one update
RequestTaskRecv(c) ==
    /\ request_task[c] = "running"
    /\ request_rx[c] # <<>>
    /\ request_rx' = [request_rx EXCEPT ![c] = Tail(@)]
    /\ LET update == Head(request_rx[c])
       IN  CASE update = "Started" ->
                  /\ forwarded' = Append(forwarded, ProviderMsg("RequestStarted", c))
                  /\ UNCHANGED request_task
             [] update = "Progress" ->
                  /\ forwarded' = Append(forwarded, ProviderMsg("RequestProgress", c))
                  /\ UNCHANGED request_task
             [] update = "Completed" ->
                  /\ forwarded' = Append(forwarded, ProviderMsg("RequestCompleted", c))
                  /\ request_task' = [request_task EXCEPT ![c] = "ended"]
             [] update = "Aborted" ->
                  /\ request_task' = [request_task EXCEPT ![c] = "ended"]
                  /\ UNCHANGED forwarded
    /\ UNCHANGED <<NotProv, provider, recv_queue, connections, updates>>

NextProv ==
    \/ \E c \in ConnectionIds : ProviderReport(c)
    \/ LoopRecv
    \/ \E c \in ConnectionIds : RequestTaskRecv(c)

\* send.rs:177-178: no connection, no task
InitProv ==
    /\ provider = [c \in ConnectionIds |-> "new"]
    /\ recv_queue = <<>>
    /\ request_rx = [c \in ConnectionIds |-> <<>>]
    /\ request_task = [c \in ConnectionIds |-> "none"]
    /\ connections = {}
    /\ forwarded = <<>>
    /\ updates = [c \in ConnectionIds |-> 0]

(***************************************************************************)
(* The specifications.                                                     *)
(***************************************************************************)
\* one receive call of the library
InitSpecRecv == InitRecv /\ ImpIdle /\ InitReg /\ InitChan /\ CallIdle /\ NearIdle /\ InitProv

SpecRecv == InitSpecRecv /\ [][NextRecv]_vars

\* two concurrent receive calls of the library
InitSpecConc == InitConc /\ ImpIdle /\ InitReg /\ InitChan /\ CallIdle /\ NearIdle /\ InitProv

SpecConc == InitSpecConc /\ [][NextRecv]_vars

\* one send call of the library, up to the ticket
InitSpecSend == RecvIdle /\ InitSend /\ InitReg /\ InitChan /\ CallIdle /\ NearIdle /\ InitProv

SpecSend == InitSpecSend /\ [][NextSend]_vars

\* one send call next to an active send session in the same directory
InitSpecSendAgain == RecvIdle /\ InitSendAgain /\ InitReg /\ InitChan /\ CallIdle /\ NearIdle /\ InitProv

SpecSendAgain == InitSpecSendAgain /\ [][NextSend]_vars

\* the app's registry with the commands that start and cancel transfers
InitSpecReg == RecvIdle /\ ImpIdle /\ InitReg /\ InitChan /\ CallIdle /\ NearIdle /\ InitProv

SpecReg == InitSpecReg /\ [][NextReg]_vars

\* the app's registry of transfers, cleared but never cancelled one by one
InitSpecRegClear == RecvIdle /\ ImpIdle /\ InitReg /\ InitChan /\ CallIdle /\ NearIdle /\ InitProv

SpecRegClear == InitSpecRegClear /\ [][NextRegClear]_vars

\* one pipeline, its progress channel and the listener
InitSpecChan == RecvIdle /\ ImpIdle /\ InitReg /\ InitChan /\ CallIdle /\ NearIdle /\ InitProv

SpecChan == InitSpecChan /\ [][NextChan]_vars

\* one call of a function
InitSpecCalls == RecvIdle /\ ImpIdle /\ InitReg /\ InitChan /\ InitCalls /\ NearIdle /\ InitProv

SpecCalls == InitSpecCalls /\ [][NextCalls]_vars

\* the nearby discovery service: announcements and tickets
InitSpecNear == RecvIdle /\ ImpIdle /\ InitReg /\ InitChan /\ CallIdle /\ InitNear /\ InitProv

SpecNear == InitSpecNear /\ [][NextNear]_vars

\* the nearby discovery service: announcements and expiry
InitSpecSweep == RecvIdle /\ ImpIdle /\ InitReg /\ InitChan /\ CallIdle /\ InitNear /\ InitProv

SpecSweep == InitSpecSweep /\ [][NextSweep]_vars

\* the ticket endpoint of the nearby discovery service
InitSpecTicket == RecvIdle /\ ImpIdle /\ InitReg /\ InitChan /\ CallIdle /\ InitNear /\ InitProv

SpecTicket == InitSpecTicket /\ [][NextTicket]_vars

\* the nearby service while it is stopped
InitSpecStop == RecvIdle /\ ImpIdle /\ InitReg /\ InitChan /\ CallIdle /\ InitNear /\ InitProv

SpecStop == InitSpecStop /\ [][NextStop]_vars

\* the responses of the listener
InitSpecReply == RecvIdle /\ ImpIdle /\ InitReg /\ InitChan /\ CallIdle /\ InitNear /\ InitProv

SpecReply == InitSpecReply /\ [][NextReply]_vars

\* the provider events of a send
InitSpecProv == RecvIdle /\ ImpIdle /\ InitReg /\ InitChan /\ CallIdle /\ NearIdle /\ InitProv

SpecProv == InitSpecProv /\ [][NextProv]_vars

(***************************************************************************)
(* The claims.                                                             *)
(***************************************************************************)
Has(log, t) == \E k \in DOMAIN log : log[k].t = t

Count(log, t) == Cardinality({k \in DOMAIN log : log[k].t = t})

\* C1: a receive that has put Download(Completed) on the progress stream
\* does not return an error afterwards.
C1_CompletedOnlyOnSuccess ==
    \A r \in Recvs : Has(sent[r], "Completed") => pc[r] # "err"

\* C2: once the command of a transfer has published the error of its
\* pipeline, the status of the record is not `completed`, whatever the
\* progress listener does before or after.
C2_ErrorStatusStays ==
    \A id \in Ids :
        (call[id] = "done_err" /\ transfers[id] # NoRecord)
            => get_transfer_status(id) # "completed"

\* C3: when a target of the collection exists in the export directory, the
\* receive does not succeed and creates or modifies nothing in the export
\* directory, whichever entry is the conflicting one.
C3_ConflictLeavesExportDirUnchanged ==
    (\E n \in 1..collection : targets["out1"][n] = "other")
        => /\ pc[1] # "ok"
           /\ \A n \in Names : targets["out1"][n] \in {"none", "other"}

\* C4: when the import of a file has ended with an Error item or without a
\* tag, send is still waiting for the other imports or has returned an
\* error; no Collection is stored, no Import(Completed) is emitted and no
\* ticket is returned.
C4_NoPartialCollection ==
    (\E i \in Files : file_pc[i] \in {"error", "ended"})
        => /\ send_pc \in {"importing", "err"}
           /\ ~collection_blob.present
           /\ ~Has(import_sent, "ImportCompleted")
           /\ ~ticket

\* C4 happens: send has returned an error after one import failed and a
\* later one completed
C4_Witness ==
    /\ send_pc = "err"
    /\ Len(names_and_tags) >= 2
    /\ ~names_and_tags[1].ok
    /\ names_and_tags[2].ok

\* C5: a receive that returns Ok has emitted exactly one Download(Metadata).
C5_ExactlyOneMetadata ==
    \A r \in Recvs : pc[r] = "ok" => Count(sent[r], "Metadata") = 1

\* C6: after the abort channel of a transfer was signalled, its pipeline
\* produces at most one further progress event.
C6_AbortStopsPipeline ==
    \A id \in Ids : after_abort[id] <= 1

\* C7: a record marked `cancelled` stays `cancelled` until it is cleared.
C7_CancelledStays ==
    [][\A id \in Ids :
          get_transfer_status(id) = "cancelled"
              => get_transfer_status(id)' \in {"cancelled", "absent"}]_vars

\* C8: cancel_transfer on a transfer whose status is `completed` changes
\* nothing in the registry.
C8_CancelAfterCompletedIsNoOp ==
    [][\A id \in Ids :
          (get_transfer_status(id) = "completed" /\ cancel_transfer(id))
              => transfers' = transfers]_vars

\* C9: a receive that finds L > 0 verified bytes in its working directory
\* emits no Downloading event with an offset below L.
C9_NoOffsetBelowResumePoint ==
    \A r \in Recvs :
        local_size[r] > 0
            => \A k \in DOMAIN sent[r] :
                  sent[r][k].t = "Downloading" => sent[r][k].a >= local_size[r]

\* C10: of two concurrent receives of one ticket into distinct export
\* directories, neither fails for a reason other than its own network or
\* disk, and when both return Ok the two export directories hold the same.
C10_ConcurrentReceivesSucceed ==
    export_dir[1] # export_dir[2]
        => /\ \A r \in Recvs :
                 pc[r] = "err"
                    => error[r] \in {"bind", "open", "connect", "sizes",
                                     "stream", "export"}
           /\ (pc[1] = "ok" /\ pc[2] = "ok")
                 => targets[export_dir[1]] = targets[export_dir[2]]

\* the stage of a receive an event belongs to
Phase(t) ==
    CASE t = "Connecting" -> 1
      [] t = "GettingSizes" -> 2
      [] t \in {"Downloading", "Metadata"} -> 3
      [] t = "ExportStarted" -> 4
      [] t \in {"ExportFileStarted", "ExportFileProgress",
                "ExportFileCompleted"} -> 5
      [] t = "ExportCompleted" -> 6
      [] t = "Completed" -> 7

\* C11: the events of a receive never go back to an earlier stage, and a
\* receive that downloaded from the peer and returned Ok has emitted
\* Connecting, GettingSizes, Downloading{0}, then Metadata/Downloading
\* events, one Export(Started), the per-file events, one Export(Completed)
\* and, last, one Download(Completed).
C11_EventOrder ==
    \A r \in Recvs :
        LET s == sent[r]
        IN  /\ \A k \in 1..(Len(s) - 1) : Phase(s[k].t) <= Phase(s[k + 1].t)
            /\ (pc[r] = "ok" /\ stats[r] = "read")
                  => /\ Len(s) >= 6
                     /\ s[1].t = "Connecting"
                     /\ s[2].t = "GettingSizes"
                     /\ s[3] = Ev("Downloading", 0)
                     /\ s[Len(s)].t = "Completed"
                     /\ \A t \in {"Connecting", "GettingSizes", "ExportStarted",
                                   "ExportCompleted", "Completed"} :
                           Count(s, t) = 1

\* C11 happens: a receive that downloaded, announced the metadata and
\* exported two files has returned Ok
C11_Witness ==
    /\ pc[1] = "ok"
    /\ stats[1] = "read"
    /\ Has(sent[1], "Metadata")
    /\ Count(sent[1], "ExportFileCompleted") = 2

\* C12: within one receive the offsets of the Downloading events, the
\* first one included, never decrease.
C12_OffsetsMonotonic ==
    \A r \in Recvs :
        \A j, k \in DOMAIN sent[r] :
            (j < k /\ sent[r][j].t = "Downloading" /\ sent[r][k].t = "Downloading")
                => sent[r][j].a <= sent[r][k].a

\* C12 happens: a resumed receive has reported two growing offsets above
\* its resume point and returned Ok
C12_Witness ==
    /\ pc[1] = "ok"
    /\ local_size[1] > 0
    /\ \E j, k \in DOMAIN sent[1] :
          /\ j < k
          /\ sent[1][j].t = "Downloading"
          /\ sent[1][k].t = "Downloading"
          /\ local_size[1] <= sent[1][j].a
          /\ sent[1][j].a < sent[1][k].a

\* C13: once the import of one file has failed, no further event is put on
\* the progress stream of that send.
C13_NoEventAfterError ==
    [][(\E i \in Files : file_pc[i] \in {"error", "ended"})
          => import_sent' = import_sent]_vars

Terminal(t) == t \in {"ImportCompleted", "FileCompleted"}

\* the events that are in the channel or were taken from it
Delivered == received \o chan

\* C14: every terminal event whose send has returned is in the channel or
\* was received, and the events reach the consumer in the order the
\* producer sent them: no terminal event is dropped, also when the channel
\* was full when it was produced.
C14_TerminalEventsDelivered ==
    /\ \A k \in 1..produced :
          Terminal(Script(k))
              => \E m \in DOMAIN Delivered : Delivered[m] = Ev(Script(k), k)
    /\ \A m \in 1..(Len(Delivered) - 1) : Delivered[m].a < Delivered[m + 1].a

\* C14 happens: the last event, Import(Completed), found the channel full,
\* waited, and was received after all the others
C14_Witness ==
    /\ MaxChanEvents \in awaited
    /\ Len(received) = MaxChanEvents
    /\ received[MaxChanEvents] = Ev("ImportCompleted", MaxChanEvents)

\* C15: the producer is never parked on a non-terminal event: with a full
\* channel such an event is dropped and the pipeline goes on.
C15_NonTerminalNeverBlocks ==
    waiting => Terminal(Script(produced + 1))

\* C16: while another send session has its working directory in the base
\* directory, send has not got past its checks: it creates no directory
\* and no store, and returns no ticket.
C16_SecondSendRefused ==
    active_sessions # {}
        => /\ send_pc \in {"idle", "err"}
           /\ ~blobs_data_dir
           /\ ~ticket

\* C17: a send that has ended with an error has left no working directory.
C17_SendDirRemovedOnFailure ==
    send_pc = "err" => ~blobs_data_dir

\* C20: the names of the stored Collection are strictly increasing, for
\* every order of the walk and every order in which the imports finish.
C20_CollectionSorted ==
    collection_blob.present
        => \A k \in 1..(Len(collection_blob.names) - 1) :
              collection_blob.names[k] < collection_blob.names[k + 1]

\* C20 happens: a Collection is stored for a tree whose walk and whose
\* order of completion were both not sorted
C20_Witness ==
    /\ collection_blob.present
    /\ Len(data_sources) >= 2
    /\ data_sources[1] > data_sources[2]
    /\ \E k \in 1..(Len(import_sent) - 1) :
          /\ import_sent[k].t = "FileCompleted"
          /\ \E l \in (k + 1)..Len(import_sent) :
                /\ import_sent[l].t = "FileCompleted"
                /\ import_sent[l].a < import_sent[k].a

\* C18: the step by which a receive returns Ok removes its working
\* directory, and is taken after Export(Completed) and Download(Completed)
\* were emitted.
C18_WorkingDirRemovedOnOk ==
    [][\A r \in Recvs :
          (pc[r] # "ok" /\ pc'[r] = "ok")
              => /\ iroh_data_dir[base_dir[r]].exists
                 /\ ~iroh_data_dir'[base_dir[r]].exists
                 /\ Has(sent[r], "ExportCompleted")
                 /\ Has(sent[r], "Completed")]_vars

\* C18 happens: a receive that resumed a partial download and exported a
\* file has returned Ok and its working directory is gone
C18_Witness ==
    /\ pc[1] = "ok"
    /\ ~iroh_data_dir[base_dir[1]].exists
    /\ local_size[1] > 0
    /\ Has(sent[1], "ExportFileCompleted")

\* C19: a receive that found the complete content in its store makes no
\* connection, emits no Connecting, GettingSizes or Downloading event, and
\* keeps the zero value of stats.
C19_CachedSkipsNetwork ==
    \A r \in Recvs :
        local_size[r] = MaxBytes
            => /\ pc[r] \notin {"connecting", "connect", "sizes", "stream"}
               /\ ~Has(sent[r], "Connecting")
               /\ ~Has(sent[r], "GettingSizes")
               /\ ~Has(sent[r], "Downloading")
               /\ stats[r] = "zero"

\* C19 happens: a receive of cached content has announced the metadata,
\* exported a file and returned Ok
C19_Witness ==
    /\ pc[1] = "ok"
    /\ local_size[1] = MaxBytes
    /\ sent[1][1].t = "Metadata"
    /\ Has(sent[1], "ExportFileCompleted")
    /\ stats[1] = "zero"

\* C21: apply_options never changes the peer id; Id empties the address
\* set, Relay keeps exactly the relay URLs, Addresses keeps exactly the IP
\* addresses and RelayAndAddresses leaves the address set as it was.
C21_ApplyOptions ==
    called = "apply_options" /\ returned = 1 =>
        /\ ret.id = arg.addr.id
        /\ arg.opts = "Id" => ret.addrs = {}
        /\ arg.opts = "Relay" =>
              ret.addrs = {a \in arg.addr.addrs : a.kind = "Relay"}
        /\ arg.opts = "Addresses" =>
              ret.addrs = {a \in arg.addr.addrs : a.kind = "Ip"}
        /\ arg.opts = "RelayAndAddresses" => ret.addrs = arg.addr.addrs

C21_Witness ==
    /\ called = "apply_options" /\ returned = 1
    /\ arg.opts = "Relay"
    /\ ret.addrs # {}
    /\ ret.addrs # arg.addr.addrs

\* C22: a ticket made with ticket_type Id carries no address and its sender
\* publishes its address for discovery; the receiver resolves the peer id by
\* discovery exactly when the ticket carries neither a relay URL nor an IP
\* address.
C22_IdTicketDiscovery ==
    called = "ticket" =>
        /\ returned >= 1 /\ arg.ticket_type = "Id" =>
              ret.ticket.addrs = {} /\ ret.publish
        /\ returned = 2 => (ret.resolve <=> ret.ticket.addrs = {})

C22_Witness ==
    /\ called = "ticket" /\ returned = 2
    /\ arg.ticket_type = "Id"
    /\ arg.addr.addrs # {}
    /\ ret.resolve

\* C28: get_or_create_secret never fails on the content of IROH_SECRET: a
\* well-formed 32-byte hex value gives the key of exactly those bytes, and a
\* missing or malformed value gives a fresh key.
C28_SecretNeverFails ==
    called = "get_or_create_secret" /\ returned = 1 =>
        LET well_formed == /\ arg.env.var = "Ok"
                           /\ arg.env.hex
                           /\ arg.env.len = 2 * KeyBytes
        IN  /\ ret.ok
            /\ well_formed => ~ret.fresh /\ ret.key = arg.env.val
            /\ ~well_formed => ret.fresh

\* `query` is a subsequence of `text`
IsSubsequence(query, text) ==
    \E f \in [1..Len(query) -> 1..Len(text)] :
        /\ \A i \in 1..Len(query) : text[f[i]] = query[i]
        /\ \A i, j \in 1..Len(query) : i < j => f[i] < f[j]

\* C29: fuzzy_score returns a score exactly when the query is a subsequence
\* of the text; the score of the empty query is 0 and the score of a
\* non-empty query that matches is greater than 0.
C29_FuzzyScoreSubsequence ==
    called = "fuzzy_score" /\ returned = 1 =>
        /\ ret.some <=> IsSubsequence(arg.query, arg.text)
        /\ arg.query = <<>> => ret = [some |-> TRUE, score |-> 0]
        /\ arg.query # <<>> /\ ret.some => ret.score > 0

C29_Witness ==
    /\ called = "fuzzy_score" /\ returned = 1
    /\ Len(arg.query) = 2
    /\ ret.some
    /\ arg.text[1] # arg.query[1]

\* C27: a receive never changes the current working directory of the
\* process: whatever receive_file commands have run, successful or failed,
\* the process is in the directory it was started in.
C27_CwdUnchanged == cwd = LaunchDir

\* the positions in the event channel of the device events of `fp`
DeviceEventsOf(fp) ==
    {k \in 1..Len(nearby_events) :
        /\ nearby_events[k].fp = fp
        /\ nearby_events[k].t \in {"DeviceDiscovered", "DeviceUpdated"}}

\* C23: for every fingerprint DeviceDiscovered is sent exactly once and
\* before any DeviceUpdated, whatever other messages, ticket pushes among
\* them, arrive in between (for a service that starts with an empty table).
C23_DiscoveredOnceAndFirst ==
    backlog = 0 =>
        \A fp \in Fingerprints :
            DeviceEventsOf(fp) # {} =>
                /\ \E k \in DeviceEventsOf(fp) :
                      /\ nearby_events[k].t = "DeviceDiscovered"
                      /\ \A j \in DeviceEventsOf(fp) : k <= j
                /\ Cardinality({k \in DeviceEventsOf(fp) :
                      nearby_events[k].t = "DeviceDiscovered"}) = 1

\* C24: while discovery is started, a device that has been silent for more
\* than 30 s is unavailable at the latest one sweep interval later, without
\* any call of the client.
C24_SilentDeviceExpires ==
    \A fp \in Fingerprints :
        devices[fp].known /\ devices[fp].available =>
            now - devices[fp].last_seen <= ExpiryMs + MaxSweepInterval

\* C25: whenever a device goes from available to unavailable, exactly one
\* DeviceExpired event for it is sent in the same step.
C25_ExpiryEmitsEvent ==
    [][\A fp \in Fingerprints :
          devices[fp].available /\ ~devices'[fp].available =>
              /\ Len(nearby_events') = Len(nearby_events) + 1
              /\ nearby_events'[Len(nearby_events')] =
                    NearbyEvent("DeviceExpired", fp, 0, 0, 0)]_vars

\* the positions in the event channel of the TicketReceived events of the
\* n-th request
TicketEventsOf(n) ==
    {k \in 1..Len(nearby_events) :
        nearby_events[k].t = "TicketReceived" /\ nearby_events[k].n = n}

\* C26: every answered POST /api/sendme/v1/ticket has sent exactly one
\* TicketReceived event, with the sender, the ticket and the message of the
\* request, whether auto-accept is on or off; its response has accepted =
\* TRUE exactly when auto-accept is on while the request is handled; no
\* other TicketReceived event is sent.
C26_TicketReceivedOnce ==
    /\ \A n \in 1..Len(responses) :
          /\ Cardinality(TicketEventsOf(n)) = 1
          /\ \A k \in TicketEventsOf(n) :
                nearby_events[k] =
                    NearbyEvent("TicketReceived", responses[n].fp,
                                responses[n].ticket, responses[n].message, n)
          /\ responses[n].accepted \in responses[n].during
    /\ \A k \in 1..Len(nearby_events) :
          nearby_events[k].t = "TicketReceived" =>
              nearby_events[k].n <= Len(responses)

C26_Witness ==
    /\ Len(responses) = 2
    /\ responses[1].accepted
    /\ ~responses[2].accepted
    /\ responses[2].during = {FALSE}
    /\ TicketEventsOf(1) # {}
    /\ TicketEventsOf(2) # {}

\* C30: no task holds the lock of the NearbyState while it is suspended,
\* waiting for room in the event channel or for the socket.
C30_NoLockAcrossSuspension == readers = {}

\* C31: once send_file has returned the ticket and set the status of its
\* transfer to serving, the status is never again initializing or importing.
C31_ServingNeverRegresses ==
    \A id \in Ids :
        kind[id] = "send" /\ call[id] = "done_ok" =>
            transfers[id].status \notin {"initializing", "importing"}

\* C32: a record is inserted only by send_file and receive_file, for the new
\* transfer, and removed only by clear_transfers, which removes all; a step
\* that writes the status of a record, other than a cancellation, is a step
\* of the command or of the listener of that very transfer.
C32_RegistryFrame ==
    [][\A id \in Ids :
          /\ transfers[id] = NoRecord /\ transfers'[id] # NoRecord =>
                /\ call[id] = "none" /\ call'[id] = "running"
                /\ transfers'[id].status = "initializing"
          /\ transfers[id] # NoRecord /\ transfers'[id] = NoRecord =>
                \A other \in Ids : transfers'[other] = NoRecord
          /\ ( /\ transfers[id] # NoRecord
               /\ transfers'[id] # NoRecord
               /\ transfers'[id].status # transfers[id].status
               /\ transfers'[id].status # "cancelled" ) =>
                \/ call'[id] # call[id]
                \/ rx'[id] # rx[id]
                \/ listener'[id] # listener[id]]_vars

\* the registry was cleared, and an event produced after that was taken by
\* the listener, which has ended
C32_Witness ==
    /\ \A id \in Ids : transfers[id] = NoRecord
    /\ \E id \in Ids :
          /\ after_abort[id] > 0
          /\ rx[id] = <<>>
          /\ listener[id] = "ended"
          /\ call[id] \in {"done_ok", "done_err"}

\* where the file system finds a path: `.` and the empty component stay
\* in place, `..` goes to the parent
RECURSIVE Resolve(_, _, _)
Resolve(path, i, at) ==
    IF i > Len(path)
    THEN at
    ELSE IF path[i] \in {<<>>, <<".">>}
    THEN Resolve(path, i + 1, at)
    ELSE IF path[i] = <<".", ".">>
    THEN Resolve(path, i + 1,
                 IF at = <<>> THEN at ELSE SubSeq(at, 1, Len(at) - 1))
    ELSE Resolve(path, i + 1, Append(at, path[i]))

\* `path` is found below `root`
IsDescendant(path, root) ==
    LET at == Resolve(path, 1, <<>>)
    IN  /\ Len(at) > Len(root)
        /\ SubSeq(at, 1, Len(root)) = root

\* the name has a component that is empty, `.` or `..`, or that contains a
\* backslash or NUL
BadName(entry) ==
    LET pieces == split(entry, 1, <<<<>>>>)
    IN  \E i \in 1..Len(pieces) :
            \/ pieces[i] \in {<<>>, <<".">>, <<".", ".">>}
            \/ \E j \in 1..Len(pieces[i]) : pieces[i][j] \in {"\\", "NUL"}

\* C33: every target that get_export_path returns lies below the export
\* directory, and a name with a component that is `..`, `.`, empty, or that
\* contains a backslash or NUL is rejected.
C33_ExportInsideRoot ==
    called = "get_export_path" /\ returned = 1 =>
        /\ ret.ok => IsDescendant(ret.path, arg.root)
        /\ BadName(arg.name) => ~ret.ok

\* the sum of the sizes of the files of a collection
RECURSIVE FilesSize(_, _, _)
FilesSize(entries, size_of, i) ==
    IF i > Len(entries)
    THEN 0
    ELSE size_of[entries[i]] + FilesSize(entries, size_of, i + 1)

\* C34: for a receive that downloads from the peer, payload_size and the
\* total_size of its Metadata event are both the sum of the sizes of the
\* files of the collection, whatever the number of entries.
C34_PayloadSizeIsMetadataSize ==
    called = "receive_sizes" /\ returned = 2 =>
        /\ ret.payload_size = ret.metadata.total_size
        /\ ret.payload_size = FilesSize(arg.entries, arg.size_of, 1)

\* the same, were the sizes those of the children of the hash sequence
C34_UnderChildrenLayout ==
    called = "receive_sizes" /\ arg.layout = "children" =>
        C34_PayloadSizeIsMetadataSize

\* the same, were the size of the hash sequence itself the first size
C34_UnderRootLayout ==
    called = "receive_sizes" /\ arg.layout = "root_and_children" =>
        C34_PayloadSizeIsMetadataSize

\* the positions in `forwarded` of the request events of connection c
RequestEventsOf(c) ==
    {k \in 1..Len(forwarded) :
        /\ forwarded[k].conn = c
        /\ forwarded[k].t \in {"RequestStarted", "RequestProgress",
                               "RequestCompleted"}}

\* C35: for every connection, ClientConnected is forwarded before every
\* request event of the connection and ConnectionClosed after all of them.
C35_ConnectionEventsNested ==
    \A c \in ConnectionIds :
        \A k \in RequestEventsOf(c) :
            /\ \E j \in 1..(k - 1) :
                  forwarded[j] = ProviderMsg("ClientConnected", c)
            /\ \A j \in 1..(k - 1) :
                  forwarded[j] # ProviderMsg("ConnectionClosed", c)

\* C40: a ticket returned by send whose addr block is empty comes from a
\* sender that publishes its address to discovery.
C40_EmptyTicketIsPublished ==
    called = "ticket" /\ returned >= 1 /\ ret.ticket.addrs = {} => ret.publish

\* C36: when the listener handles a message of a device that is in the
\* table, the pending_ticket of the device stays as it is.
C36_AnnouncementKeepsTicket ==
    [][\A fp \in Claimed :
          /\ heard' # heard \/ listener_task' # listener_task
          /\ devices[fp].known
          => devices'[fp].pending_ticket = devices[fp].pending_ticket]_vars

\* C37: the device table has no entry for our own fingerprint.
C37_OwnFingerprintNotInTable == ~devices[OwnFingerprint].known

\* stop() has returned
Stopped == ~server_running /\ client.pc = "idle"

\* C38: once stop() has returned no event is produced and the device table
\* does not change.
C38_QuiescentAfterStop ==
    [][Stopped => nearby_events' = nearby_events /\ devices' = devices]_vars

\* C39: a step sends at most one response; a response is sent while the
\* server runs, to another device, with announce = false, in answer to a
\* datagram with announce = true that has not been answered before.
C39_OneReplyPerAnnouncement ==
    [][/\ Len(replies') <= Len(replies) + 1
       /\ Len(replies') > Len(replies) =>
             LET r == replies'[Len(replies')]
             IN  /\ server_running
                 /\ r.answers
                 /\ ~r.announce
                 /\ r.to # OwnFingerprint
                 /\ \A k \in 1..Len(replies) : replies[k].n # r.n]_vars

\* an announcement has been answered, a later datagram has not, and the
\* service has been stopped
C39_Witness ==
    /\ Len(replies) = 1
    /\ heard >= 2
    /\ listener_task.pc = "ended"
    /\ Stopped

====
